---- MODULE Spec2Model ----
(***************************************************************************)
(* Recursive graph bisection (ds2i): the recursive driver, the refinement  *)
(* loop of one partition (degrees, gains, sort by gain, swap), the gain    *)
(* kernels with the float arithmetic of bp::expb, the progress counter and *)
(* the extraction of the mapping.                                          *)
(*                                                                         *)
(* Arrays keep the source's 0-based indices: a vector of length n is a     *)
(* function with domain 0..n-1.  A document handle is the document's id.   *)
(* A term list is ascending and duplicate free, so it is kept as the set   *)
(* of its terms.  A floating point value v is kept as the integer          *)
(* v * 2^23: every value the kernels produce is such a multiple.           *)
(***************************************************************************)
EXTENDS Integers, Sequences, FiniteSets, TLC

\* ------------------------------------------------------------- bounds
MaxDocs == 2
MaxTerms == 1
MaxDepth == 1
MaxCacheDepth == 1
MaxValues == 2

\* ------------------------------------------------- program constants
\* for (int iteration = 0; iteration < 20; ++iteration)
Iterations == 20

\* ------------------------------------------------------------ helpers
Min(S) == CHOOSE x \in S : \A y \in S : x <= y

Max(S) == CHOOSE x \in S : \A y \in S : x >= y

RECURSIVE SumOver(_, _)
\* sum of f[x] over the finite set S
SumOver(f, S) ==
    IF S = {} THEN 0
    ELSE LET x == Min(S) IN f[x] + SumOver(f, S \ {x})

\* --------------------------------------------------- float arithmetic
\* the spacing of the floats around the magnitude a, in units of 2^-23: a
\* float has 24 significant bits
FloatUnit(a) ==
    IF a < 2 ^ 24 THEN 1
    ELSE IF a < 2 ^ 25 THEN 2
    ELSE IF a < 2 ^ 26 THEN 4
    ELSE IF a < 2 ^ 27 THEN 8
    ELSE IF a < 2 ^ 28 THEN 16
    ELSE IF a < 2 ^ 29 THEN 32
    ELSE 64

\* the multiple of u nearest to q * u + r, ties to the even multiple
NearestEven(q, r, u) ==
    IF 2 * r > u \/ (2 * r = u /\ q % 2 = 1) THEN (q + 1) * u ELSE q * u

\* a magnitude rounded to the nearest float
RoundMagnitude(a, u) == NearestEven(a \div u, a % u, u)

\* round to nearest float, ties to even (the rounding of every SSE operation)
RoundF(x) ==
    IF x < 0 THEN 0 - RoundMagnitude(0 - x, FloatUnit(0 - x))
    ELSE RoundMagnitude(x, FloatUnit(x))

\* Log2<4096>: log2(n) as _mm_set_ps narrows it to float, times 2^23; the
\* entry for 0 follows the convention 0 * log2(.) = 0
Log2Table ==
    <<0, 0, 8388608, 13295629, 16777216, 19477744, 21684238, 23549800,
      25165824, 26591258, 27866352, 29019816, 30072846, 31041538, 31938408,
      32773374, 33554432, 34288124>>

log2(n) == Log2Table[n + 1]

\* bp::expb: four float products, then a[3] - a[2] + a[1] - a[0] in float
expb(logn1, logn2, deg1, deg2) ==
    LET a3 == RoundF(deg1 * logn1)
        a2 == RoundF(deg1 * log2(deg1 + 1))
        a1 == RoundF(deg2 * logn2)
        a0 == RoundF(deg2 * log2(deg2 + 1))
    IN  RoundF(RoundF(RoundF(a3 - a2) + a1) - a0)

\* a faulty gain with the two costs exchanged: the cost after the move minus
\* the cost before it
term_gain_reversed(logn1, logn2, from_deg, to_deg) ==
    expb(logn1, logn2, from_deg - 1, to_deg + 1)
        - expb(logn1, logn2, from_deg, to_deg)

\* the gain of one term: the body of the inner loop of both kernels
term_gain(logn1, logn2, from_deg, to_deg) ==
    expb(logn1, logn2, from_deg, to_deg)
        - expb(logn1, logn2, from_deg - 1, to_deg + 1)

\* -------------------------------------------------------------- state
VARIABLES
    fwd,             \* forward index: document id -> its term list
    term_count,      \* forward index: the dictionary size
    documents,       \* the handle array, permuted in place
    gains,           \* the gain scratch, indexed by document id
    depth,           \* the driver's depth argument
    parallel_depth,  \* the driver's parallel_depth argument
    cache_depth,     \* the driver's cache_depth argument
    phase,           \* where the caller stands: start, running, done, error
    tasks,           \* the active invocations of recursive_graph_bisection
    m_count,         \* progress::m_count
    m_goal,          \* progress::m_goal
    generation,      \* the thread_local generation counter
    gain_cache,      \* the thread_local cache of the caching kernel
    mapping,         \* the result of get_mapping
    calls,           \* the invocations of recursive_graph_bisection so far
    deg_tasks,       \* compute_degrees(partition): its two tasks, increment by increment
    codec,           \* a Varint::encode and Varint::decode of its bytes
    loader           \* a call of forward_index::from_binary_collection

vars ==
    <<fwd, term_count, documents, gains, depth, parallel_depth, cache_depth,
      phase, tasks, m_count, m_goal, generation, gain_cache, mapping, calls,
      deg_tasks, codec, loader>>

\* the state of the functions that are followed on their own, which a run of
\* the bisection leaves alone
library == <<deg_tasks, codec, loader>>

\* fwd.size()
NumDocs == Cardinality(DOMAIN fwd)

\* a vector from a TLA+ tuple
FromSeq(s) == [i \in 0 .. Len(s) - 1 |-> s[i + 1]]

\* ------------------------------------------------------------- inputs
IndexesOf(D, T) == [0 .. D - 1 -> SUBSET (0 .. T - 1)]

\* the sequential runs: every forward index within the bounds, with depth 0
\* (automatic) and cache_depth 0, or with depth MaxDepth and cache_depth 0 or
\* MaxCacheDepth
SequentialInputs ==
    UNION {
      UNION {
        { [fwd |-> f, term_count |-> T, depth |-> dc[1], parallel_depth |-> 0,
           cache_depth |-> dc[2]] :
            f \in IndexesOf(D, T),
            dc \in {<<0, 0>>, <<MaxDepth, 0>>, <<MaxDepth, MaxCacheDepth>>} } :
        T \in 0 .. MaxTerms } :
      D \in 0 .. MaxDocs }

\* the least runs that fork: three documents (documents.size() > 2), the
\* last with every term, the middle one with none and the first with every
\* term or none, depth 2 (depth > 1), parallel_depth 1 (parallel_depth > 0),
\* cache_depth 0
ParallelInputs ==
    { [fwd |-> f, term_count |-> MaxTerms, depth |-> 2, parallel_depth |-> 1,
       cache_depth |-> 0] :
        f \in { g \in [0 .. 2 -> {{}, 0 .. MaxTerms - 1}] : g[1] = {} /\ g[2] # {} } }

\* a run of three documents, the first and the last of which share a term:
\* 0:[0], 1:[1], 2:[0,1], depth = 1
SharedTermInput ==
    [fwd |-> FromSeq(<<{0}, {1}, {0, 1}>>), term_count |-> 2, depth |-> 1,
     parallel_depth |-> 0, cache_depth |-> 0]

\* Scenario B: D = 4, T = 2, documents 0:[0], 1:[1], 2:[0], 3:[1], depth = 1
ScenarioB ==
    [fwd |-> FromSeq(<<{0}, {1}, {0}, {1}>>), term_count |-> 2, depth |-> 1,
     parallel_depth |-> 0, cache_depth |-> 0]

\* Scenario C: D = 8, T = 3, [0] at the even ids, [1,2] at the odd ids, depth = 3
ScenarioC ==
    [fwd |-> FromSeq(<<{0}, {1, 2}, {0}, {1, 2}, {0}, {1, 2}, {0}, {1, 2}>>),
     term_count |-> 3, depth |-> 3, parallel_depth |-> 0, cache_depth |-> 0]

\* a run of three documents over an empty dictionary that recurses: depth = 2
NoTermsInput ==
    [fwd |-> FromSeq(<<{}, {}, {}>>), term_count |-> 0, depth |-> 2,
     parallel_depth |-> 0, cache_depth |-> 0]

\* a run of five documents that forks, with handles of equal gain in both
\* halves: 0:[0,1], 1:[], 2:[], 3:[1], 4:[], depth = 2, parallel_depth = 1
TiedGainsInput ==
    [fwd |-> FromSeq(<<{0, 1}, {}, {}, {1}, {}>>), term_count |-> 2, depth |-> 2,
     parallel_depth |-> 1, cache_depth |-> 0]

\* a run of four documents with the caching kernel, where the documents of
\* each half share a term: 0:[0], 1:[0,1], 2:[0,1], 3:[1], depth = 1,
\* cache_depth = 1
SharedCacheInput ==
    [fwd |-> FromSeq(<<{0}, {0, 1}, {0, 1}, {1}>>), term_count |-> 2, depth |-> 1,
     parallel_depth |-> 0, cache_depth |-> 1]

\* a run of six documents that recurses twice (depth = 3) with the caching
\* kernel at the first two levels (cache_depth = 2):
\* 0:[0], 1:[0,1], 2:[1], 3:[1,2], 4:[2], 5:[0,2]
DeepCacheInput ==
    [fwd |-> FromSeq(<<{0}, {0, 1}, {1}, {1, 2}, {2}, {0, 2}>>), term_count |-> 3,
     depth |-> 3, parallel_depth |-> 0, cache_depth |-> 2]

\* a run of five documents that forks at the top level only
\* (parallel_depth = 1) and recurses once more below it (depth = 3):
\* 0:[0], 1:[0], 2:[0,1], 3:[1,2], 4:[2]
DeepForkInput ==
    [fwd |-> FromSeq(<<{0}, {0}, {0, 1}, {1, 2}, {2}>>), term_count |-> 3,
     depth |-> 3, parallel_depth |-> 1, cache_depth |-> 0]

Inputs == SequentialInputs \cup ParallelInputs \cup {ScenarioB, ScenarioC, SharedTermInput, NoTermsInput, TiedGainsInput, SharedCacheInput, DeepCacheInput, DeepForkInput}

\* ------------------------------------------------ ranges and partitions
\* document_range::split: mid = first + size() / 2
\* a faulty split that rounds the size of the left half up
split_ceil(first, last) == first + ((last - first + 1) \div 2)

split(first, last) == first + ((last - first) \div 2)

\* one invocation of recursive_graph_bisection: its range, its arguments,
\* where it stands, the locals of process_partition and swap, and the sides
\* whose task of the tbb::parallel_invoke it stands in has completed
Frame(first, last, d, pd, cd) ==
    [first |-> first, last |-> last, depth |-> d, parallel_depth |-> pd,
     cache_depth |-> cd, pc |-> "degrees", iteration |-> 0,
     deg_left |-> <<>>, deg_right |-> <<>>, lit |-> 0, sides |-> {}]

\* the handles of [first, last)
RangeIds(docs, first, last) == {docs[p] : p \in first .. last - 1}

\* docs with the sequence s written from position first on
Place(docs, first, s) ==
    [p \in DOMAIN docs |->
        IF p >= first /\ p < first + Len(s) THEN s[p - first + 1] ELSE docs[p]]

\* ------------------------------------------------------------ degrees
\* a faulty deg_map_inc that sets the slot to 1 instead of adding 1 to it
deg_map_set(deg_map, terms) ==
    [t \in DOMAIN deg_map |-> IF t \in terms THEN 1 ELSE deg_map[t]]

\* deg_map_inc applied to every term of one document
deg_map_inc(deg_map, terms) ==
    [t \in DOMAIN deg_map |-> IF t \in terms THEN deg_map[t] + 1 ELSE deg_map[t]]

RECURSIVE DegreesFrom(_, _, _, _, _)
\* the loop of compute_degrees over the handles of [p, last)
DegreesFrom(deg_map, index, docs, p, last) ==
    IF p >= last THEN deg_map
    ELSE DegreesFrom(deg_map_inc(deg_map, index[docs[p]]), index, docs, p + 1, last)

\* a faulty compute_degrees whose vector has one slot too many
compute_degrees_wide(index, T, docs, first, last) ==
    DegreesFrom([t \in 0 .. T |-> 0], index, docs, first, last)

\* compute_degrees(range): a zeroed vector of term_count slots, then the loop
compute_degrees(index, T, docs, first, last) ==
    DegreesFrom([t \in 0 .. T - 1 |-> 0], index, docs, first, last)

\* -------------------------------------------------------- gain kernels
\* compute_document_gain of the plain kernel
document_gain(terms, logn1, logn2, from_lex, to_lex) ==
    SumOver([t \in terms |-> term_gain(logn1, logn2, from_lex[t], to_lex[t])],
            terms)

\* compute_move_gains: range.gain(d) = gain for every handle of [first, last)
compute_move_gains(g, index, docs, first, last, from_n, to_n, from_lex, to_lex) ==
    LET logn1 == log2(from_n)
        logn2 == log2(to_n)
        ids == RangeIds(docs, first, last)
    IN  [d \in DOMAIN g |->
            IF d \in ids
            THEN document_gain(index[d], logn1, logn2, from_lex, to_lex)
            ELSE g[d]]

\* the outcomes of the conversion of a double below -1 to uint32_t, which the
\* language leaves undefined: 0 where the conversion saturates, a value of
\* the upper range where the low bits of a wider conversion are kept
UndefinedUint32 == {0, 2 ^ 29}

\* precomputed[i][j] = expb(..): the conversion of a double, held in units of
\* 2^-23, to uint32_t; it drops the fraction, and u is what it yields where
\* it is undefined
ToUint32(x, u) ==
    IF x >= 0 THEN x \div (2 ^ 23)
    ELSE IF 0 - x < 2 ^ 23 THEN 0
    ELSE u

\* precomputed_moves_t::precompute_moves
precompute_moves(logn1, logn2, upper_bound, u) ==
    [i \in 0 .. upper_bound - 1 |->
        [j \in 0 .. upper_bound - 1 |-> ToUint32(expb(logn1, logn2, i, j), u)]]

\* precomputed_moves_t::precompute_moves_recursive, on the map m_values
RECURSIVE precompute_moves_recursive(_, _, _, _)
precompute_moves_recursive(m_values, n, degree_limit, u) ==
    LET n1 == n \div 2
        n2 == (n + 1) \div 2
        pre == precompute_moves(log2(n1), log2(n2), degree_limit, u)
        halves ==
            IF <<n1, n2>> \in DOMAIN m_values THEN m_values
            ELSE precompute_moves_recursive(
                     precompute_moves_recursive(
                         m_values @@ (<<n1, n2>> :> pre), n1, degree_limit, u),
                     n2, degree_limit, u)
    IN  IF <<n2, n1>> \in DOMAIN halves THEN halves
        ELSE halves @@ (<<n2, n1>> :> pre)

\* precomputed_moves_t(size, degree_limit)
precomputed_moves_t(size, degree_limit, u) ==
    precompute_moves_recursive(<<>>, size, degree_limit, u)

\* bp::precomputed_moves, the table the kernel reads: default-constructed,
\* its m_values is empty
precomputed_moves == <<>>

\* compute_document_gain of the precomputed kernel, in units of 1
precomputed_document_gain(terms, precomputed, from_lex, to_lex) ==
    SumOver([t \in terms |-> precomputed[from_lex[t]][to_lex[t]]], terms)

\* compute_move_gains_precompute on the table P: range.gain(d) = gain for
\* every handle of [first, last); operator[] asserts that the key is there
compute_move_gains_precompute(P, g, index, docs, first, last, from_n, to_n, from_lex, to_lex) ==
    LET precomputed == P[<<from_n, to_n>>]
        ids == RangeIds(docs, first, last)
    IN  [d \in DOMAIN g |->
            IF d \in ids
            THEN precomputed_document_gain(index[d], precomputed, from_lex, to_lex)
            ELSE g[d]]

\* a faulty has_value that takes an entry of any earlier generation for valid
has_value_stale(entry, gen) == entry.m_generation >= 1 /\ entry.m_generation <= gen

\* cache_entry::has_value
has_value(entry, gen) == entry.m_generation = gen

RECURSIVE CachedTerms(_, _, _, _, _, _, _)
\* the loop over the terms of one document in the caching kernel: the cache
\* after it and the document's gain
CachedTerms(terms, cache, gen, logn1, logn2, from_lex, to_lex) ==
    IF terms = {} THEN [cache |-> cache, gain |-> 0]
    ELSE LET t == Min(terms)
             filled ==
                 IF ~has_value(cache[t], gen)
                 THEN [cache EXCEPT ![t] =
                         [m_value |-> term_gain(logn1, logn2, from_lex[t], to_lex[t]),
                          m_generation |-> gen]]
                 ELSE cache
             rest == CachedTerms(terms \ {t}, filled, gen, logn1, logn2,
                                 from_lex, to_lex)
         IN  [cache |-> rest.cache, gain |-> filled[t].m_value + rest.gain]

RECURSIVE CachedDocs(_, _, _, _, _, _, _, _, _, _, _)
\* the loop over the handles of [p, last) in the caching kernel
CachedDocs(g, cache, gen, index, docs, p, last, logn1, logn2, from_lex, to_lex) ==
    IF p >= last THEN [gains |-> g, cache |-> cache, generation |-> gen]
    ELSE LET one == CachedTerms(index[docs[p]], cache, gen, logn1, logn2,
                                from_lex, to_lex)
         IN  CachedDocs([g EXCEPT ![docs[p]] = one.gain], one.cache, gen, index,
                        docs, p + 1, last, logn1, logn2, from_lex, to_lex)

\* a faulty caching kernel that forgets generation += 1
compute_move_gains_caching_no_inc(g, cache, gen, index, docs, first, last, from_n, to_n, from_lex, to_lex) ==
    CachedDocs(g, cache, gen, index, docs, first, last, log2(from_n),
               log2(to_n), from_lex, to_lex)

\* compute_move_gains_caching: generation += 1, then the loop
compute_move_gains_caching(g, cache, gen, index, docs, first, last, from_n, to_n, from_lex, to_lex) ==
    CachedDocs(g, cache, gen + 1, index, docs, first, last, log2(from_n),
               log2(to_n), from_lex, to_lex)

\* compute_gains: the kernel on the left half, then on the right half with
\* the degree maps and the sizes exchanged
compute_gains(caching, g, cache, gen, index, docs, first, mid, last, deg_left, deg_right) ==
    LET n1 == mid - first
        n2 == last - mid
    IN  IF caching
        THEN LET l == compute_move_gains_caching(g, cache, gen, index, docs,
                          first, mid, n1, n2, deg_left, deg_right)
             IN  compute_move_gains_caching(l.gains, l.cache, l.generation,
                     index, docs, mid, last, n2, n1, deg_right, deg_left)
        ELSE [gains |->
                 compute_move_gains(
                     compute_move_gains(g, index, docs, first, mid, n1, n2,
                                        deg_left, deg_right),
                     index, docs, mid, last, n2, n1, deg_right, deg_left),
              cache |-> cache, generation |-> gen]

\* ---------------------------------------------------------------- sorts
RECURSIVE by_gain_ascending(_, _)
\* a faulty sort whose comparator is reversed: non-decreasing gain
by_gain_ascending(S, g) ==
    IF S = {} THEN {<<>>}
    ELSE LET m == Min({g[d] : d \in S})
         IN  UNION { { <<d>> \o s : s \in by_gain_ascending(S \ {d}, g) } :
                     d \in {e \in S : g[e] = m} }

RECURSIVE by_gain(_, _)
\* every order std::sort may leave the handles S in under the comparator
\* gains[lhs] > gains[rhs]: non-increasing gain, equal gains in any order
by_gain(S, g) ==
    IF S = {} THEN {<<>>}
    ELSE LET m == Max({g[d] : d \in S})
         IN  UNION { { <<d>> \o s : s \in by_gain(S \ {d}, g) } :
                     d \in {e \in S : g[e] = m} }

\* a faulty sort whose comparator is reversed: the handles S by descending id
sort_by_id_descending(S) ==
    CHOOSE s \in [1 .. Cardinality(S) -> S] :
       \A i, j \in 1 .. Cardinality(S) : i < j => s[i] > s[j]

RECURSIVE sort_by_id(_)
\* std::sort without a comparator: the handles S by ascending id
sort_by_id(S) ==
    IF S = {} THEN <<>>
    ELSE LET d == Min(S) IN <<d>> \o sort_by_id(S \ {d})

\* ----------------------------------------------------------- swap step
\* a faulty swap that forgets the increment of right[term] in its first loop
swap_degrees_no_inc(deg_left, deg_right, lterms, rterms) ==
    LET l1 == [t \in DOMAIN deg_left |->
                  IF t \in lterms THEN deg_left[t] - 1 ELSE deg_left[t]]
    IN  [left |-> [t \in DOMAIN l1 |-> IF t \in rterms THEN l1[t] + 1 ELSE l1[t]],
         right |-> [t \in DOMAIN deg_right |->
                       IF t \in rterms THEN deg_right[t] - 1 ELSE deg_right[t]]]

\* a faulty swap that forgets its second loop, over the terms of the right
\* document
swap_degrees_first_loop(deg_left, deg_right, lterms, rterms) ==
    [left |-> [t \in DOMAIN deg_left |->
                  IF t \in lterms THEN deg_left[t] - 1 ELSE deg_left[t]],
     right |-> [t \in DOMAIN deg_right |->
                   IF t \in lterms THEN deg_right[t] + 1 ELSE deg_right[t]]]

\* a faulty swap that keeps only the left degree map up to date
swap_degrees_left_only(deg_left, deg_right, lterms, rterms) ==
    LET l1 == [t \in DOMAIN deg_left |->
                  IF t \in lterms THEN deg_left[t] - 1 ELSE deg_left[t]]
    IN  [left |-> [t \in DOMAIN l1 |-> IF t \in rterms THEN l1[t] + 1 ELSE l1[t]],
         right |-> deg_right]

\* the two inner loops of swap for the pair (l, r) of documents
swap_degrees(deg_left, deg_right, lterms, rterms) ==
    LET l1 == [t \in DOMAIN deg_left |->
                  IF t \in lterms THEN deg_left[t] - 1 ELSE deg_left[t]]
        r1 == [t \in DOMAIN deg_right |->
                  IF t \in lterms THEN deg_right[t] + 1 ELSE deg_right[t]]
    IN  [left |-> [t \in DOMAIN l1 |-> IF t \in rterms THEN l1[t] + 1 ELSE l1[t]],
         right |-> [t \in DOMAIN r1 |-> IF t \in rterms THEN r1[t] - 1 ELSE r1[t]]]

\* a faulty iter_swap that copies *rit over *lit and leaves *rit
iter_swap_copy(docs, l, r) == [docs EXCEPT ![l] = docs[r]]

\* std::iter_swap(lit, rit)
iter_swap(docs, l, r) == [docs EXCEPT ![l] = docs[r], ![r] = docs[l]]

\* -------------------------------------------------------------- mapping
\* a faulty get_mapping that writes mapping[id] = ++p
get_mapping_preincrement(collection) ==
    [id \in 0 .. Cardinality(DOMAIN collection) - 1 |->
        LET at == {p \in DOMAIN collection : collection[p] = id}
        IN  IF at = {} THEN 0 ELSE Max(at) + 1]

\* a faulty get_mapping that writes mapping[p++] = id
get_mapping_forward(collection) ==
    [p \in 0 .. Cardinality(DOMAIN collection) - 1 |-> collection[p]]

\* get_mapping: mapping(collection.size(), 0), then mapping[id] = p++
get_mapping(collection) ==
    [id \in 0 .. Cardinality(DOMAIN collection) - 1 |->
        LET at == {p \in DOMAIN collection : collection[p] = id}
        IN  IF at = {} THEN 0 ELSE Max(at)]

\* ---------------------------------------------------------------- main
RECURSIVE FloorLog2(_)
\* static_cast<size_t>(std::log2(n)) for n >= 1
FloorLog2(n) == IF n <= 1 THEN 0 ELSE 1 + FloorLog2(n \div 2)

\* static_cast<size_t>(std::log2(fwd.size())): the cast of log2(0) = -inf is
\* undefined, so an empty index leaves any depth
AutoDepth == IF NumDocs = 0 THEN 0 .. MaxDepth ELSE {FloorLog2(NumDocs)}

\* ------------------------------------------------------- initial state
\* the index, the handle array and the arguments of the input in, with
\* nothing run yet
Loaded(in) ==
    /\ fwd = in.fwd
    /\ term_count = in.term_count
    /\ depth = in.depth
    /\ parallel_depth = in.parallel_depth
    /\ cache_depth = in.cache_depth
    /\ documents = [i \in DOMAIN in.fwd |-> i]
    /\ gains = [i \in DOMAIN in.fwd |-> 0]
    /\ phase = "start"
    /\ tasks = <<>>
    /\ m_count = 0
    /\ m_goal = 0
    /\ generation = 0
    /\ gain_cache =
           [t \in 0 .. in.term_count - 1 |-> [m_value |-> 0, m_generation |-> 0]]
    /\ mapping = <<>>
    /\ calls = 0

Init ==
    \E in \in Inputs :
        /\ Loaded(in)
        /\ deg_tasks = <<>>
        /\ codec = <<>>
        /\ loader = <<>>

\* the path of the root invocation
Root == <<>>

Size(f) == f.last - f.first

\* a faulty midpoint that rounds the half size up
MidCeil(f) == f.first + ((f.last - f.first + 1) \div 2)

Mid(f) == split(f.first, f.last)

\* a faulty test that recurses whatever the depth
RecursesAtAnyDepth(f) == Size(f) > 2

\* depth > 1 && documents.size() > 2
Recurses(f) == f.depth > 1 /\ Size(f) > 2

Children(t) == {Append(t, "l"), Append(t, "r")} \cap DOMAIN tasks

Without(ts, gone) == [p \in DOMAIN ts \ gone |-> ts[p]]

\* ------------------------------------------------------------- actions
\* main: the automatic depth, the progress object (its constructor throws on
\* a goal of 0), the call of the driver
MainStart ==
    /\ phase = "start"
    /\ \E d \in (IF depth = 0 THEN AutoDepth ELSE {depth}) :
        /\ depth' = d
        /\ IF NumDocs * d = 0
           THEN /\ phase' = "error"
                /\ UNCHANGED <<tasks, m_goal, calls>>
           ELSE /\ phase' = "running"
                /\ m_goal' = NumDocs * d
                /\ tasks' = (Root :> Frame(0, NumDocs, d, parallel_depth, cache_depth))
                /\ calls' = calls + 1
    /\ UNCHANGED <<library, fwd, term_count, documents, gains, parallel_depth, cache_depth,
                   m_count, generation, gain_cache, mapping>>

\* recursive_graph_bisection called with the arguments as given and a
\* progress object of a positive goal
CallBisection ==
    /\ phase = "start"
    /\ phase' = "running"
    /\ m_goal' = IF NumDocs * depth = 0 THEN 1 ELSE NumDocs * depth
    /\ tasks' = (Root :> Frame(0, NumDocs, depth, parallel_depth, cache_depth))
    /\ calls' = calls + 1
    /\ UNCHANGED <<library, fwd, term_count, documents, gains, depth, parallel_depth,
                   cache_depth, m_count, generation, gain_cache, mapping>>

\* the two tasks of a tbb::parallel_invoke over the halves of a partition
Sides == {"left", "right"}

\* a faulty parallel_invoke that returns when the first of its tasks has
\* completed
JoinedEarly(f, side, next) == [f EXCEPT !.sides = {}, !.pc = next]

\* the invocation f after the task of one side has completed: the join of
\* the parallel_invoke lets f go on to the step next once both have
Joined(f, side, next) ==
    IF f.sides \cup {side} = Sides
    THEN [f EXCEPT !.sides = {}, !.pc = next]
    ELSE [f EXCEPT !.sides = f.sides \cup {side}]

\* compute_degrees(partition): one task of its parallel_invoke, which
\* computes the degree map of its half
ComputeDegreesSide(t, side) ==
    LET f == tasks[t]
        g == IF side = "left"
             THEN [f EXCEPT !.deg_left =
                     compute_degrees(fwd, term_count, documents, f.first, Mid(f))]
             ELSE [f EXCEPT !.deg_right =
                     compute_degrees(fwd, term_count, documents, Mid(f), f.last)]
    IN
    /\ f.pc = "degrees"
    /\ side \notin f.sides
    /\ tasks' = [tasks EXCEPT ![t] = Joined([g EXCEPT !.iteration = 0], side, "gains")]
    /\ UNCHANGED <<library, fwd, term_count, documents, gains, depth, parallel_depth,
                   cache_depth, phase, m_count, m_goal, generation, gain_cache,
                   mapping, calls>>

\* process_partition: auto degrees = compute_degrees(partition)
ComputeDegrees(t) == \E side \in Sides : ComputeDegreesSide(t, side)

\* process_partition<false>: compute_gains<false> with the kernel the driver
\* chose, the left half first
ComputeGains(t) ==
    LET f == tasks[t]
        out == compute_gains(f.cache_depth >= 1, gains, gain_cache, generation,
                             fwd, documents, f.first, Mid(f), f.last,
                             f.deg_left, f.deg_right)
    IN
    /\ f.pc = "gains"
    /\ f.parallel_depth = 0
    /\ gains' = out.gains
    /\ gain_cache' = out.cache
    /\ generation' = out.generation
    /\ tasks' = [tasks EXCEPT ![t] = [f EXCEPT !.pc = "sort"]]
    /\ UNCHANGED <<library, fwd, term_count, documents, depth, parallel_depth, cache_depth,
                   phase, m_count, m_goal, mapping, calls>>

\* process_partition<true>: one task of the parallel_invoke of compute_gains,
\* the kernel the driver chose on one half
ComputeGainsSide(t, side) ==
    LET f == tasks[t]
        n1 == Mid(f) - f.first
        n2 == f.last - Mid(f)
        out == IF f.cache_depth >= 1
               THEN IF side = "left"
                    THEN compute_move_gains_caching(gains, gain_cache, generation,
                             fwd, documents, f.first, Mid(f), n1, n2,
                             f.deg_left, f.deg_right)
                    ELSE compute_move_gains_caching(gains, gain_cache, generation,
                             fwd, documents, Mid(f), f.last, n2, n1,
                             f.deg_right, f.deg_left)
               ELSE [gains |->
                        IF side = "left"
                        THEN compute_move_gains(gains, fwd, documents, f.first,
                                 Mid(f), n1, n2, f.deg_left, f.deg_right)
                        ELSE compute_move_gains(gains, fwd, documents, Mid(f),
                                 f.last, n2, n1, f.deg_right, f.deg_left),
                     cache |-> gain_cache, generation |-> generation]
    IN
    /\ f.pc = "gains"
    /\ f.parallel_depth > 0
    /\ side \notin f.sides
    /\ gains' = out.gains
    /\ gain_cache' = out.cache
    /\ generation' = out.generation
    /\ tasks' = [tasks EXCEPT ![t] = Joined(f, side, "sort")]
    /\ UNCHANGED <<library, fwd, term_count, documents, depth, parallel_depth, cache_depth,
                   phase, m_count, m_goal, mapping, calls>>

\* process_partition<true>: one task of the parallel_invoke of the sorts,
\* std::sort of one half by gain
SortSide(t, side) ==
    LET f == tasks[t]
        from == IF side = "left" THEN f.first ELSE Mid(f)
        to == IF side = "left" THEN Mid(f) ELSE f.last
    IN
    /\ f.pc = "sort"
    /\ f.parallel_depth > 0
    /\ side \notin f.sides
    /\ \E s \in by_gain(RangeIds(documents, from, to), gains) :
          documents' = Place(documents, from, s)
    /\ tasks' = [tasks EXCEPT ![t] = [Joined(f, side, "swap") EXCEPT !.lit = 0]]
    /\ UNCHANGED <<library, fwd, term_count, gains, depth, parallel_depth, cache_depth,
                   phase, m_count, m_goal, generation, gain_cache, mapping, calls>>

\* process_partition<false>: both halves sorted by gain, the left one first
SortByGain(t) ==
    LET f == tasks[t] IN
    /\ f.pc = "sort"
    /\ f.parallel_depth = 0
    /\ \E ls \in by_gain(RangeIds(documents, f.first, Mid(f)), gains),
          rs \in by_gain(RangeIds(documents, Mid(f), f.last), gains) :
          documents' = Place(Place(documents, f.first, ls), Mid(f), rs)
    /\ tasks' = [tasks EXCEPT ![t] = [f EXCEPT !.pc = "swap", !.lit = 0]]
    /\ UNCHANGED <<library, fwd, term_count, gains, depth, parallel_depth, cache_depth,
                   phase, m_count, m_goal, generation, gain_cache, mapping, calls>>

\* a faulty loop condition that also exchanges a pair whose gains add up to 0
SwapGoesOnAtZero(f) ==
    /\ f.first + f.lit < Mid(f)
    /\ Mid(f) + f.lit < f.last
    /\ gains[documents[f.first + f.lit]] + gains[documents[Mid(f) + f.lit]] >= 0

\* swap: the loop goes on while both iterators are inside their halves and
\* the gains of the pair add up to more than 0
SwapGoesOn(f) ==
    /\ f.first + f.lit < Mid(f)
    /\ Mid(f) + f.lit < f.last
    /\ gains[documents[f.first + f.lit]] + gains[documents[Mid(f) + f.lit]] > 0

\* a faulty loop body that also resets the gains of the pair it exchanges
SwapStepResettingGains(t) ==
    LET f == tasks[t]
        l == f.first + f.lit
        r == Mid(f) + f.lit
        deg == swap_degrees(f.deg_left, f.deg_right, fwd[documents[l]],
                            fwd[documents[r]])
    IN
    /\ f.pc = "swap"
    /\ SwapGoesOn(f)
    /\ documents' = iter_swap(documents, l, r)
    /\ gains' = [gains EXCEPT ![documents[l]] = 0, ![documents[r]] = 0]
    /\ tasks' = [tasks EXCEPT ![t] =
          [f EXCEPT !.deg_left = deg.left, !.deg_right = deg.right,
                    !.lit = f.lit + 1]]
    /\ UNCHANGED <<library, fwd, term_count, depth, parallel_depth, cache_depth,
                   phase, m_count, m_goal, generation, gain_cache, mapping, calls>>

\* swap: one pass of the loop body
SwapStep(t) ==
    LET f == tasks[t]
        l == f.first + f.lit
        r == Mid(f) + f.lit
        deg == swap_degrees(f.deg_left, f.deg_right, fwd[documents[l]],
                            fwd[documents[r]])
    IN
    /\ f.pc = "swap"
    /\ SwapGoesOn(f)
    /\ documents' = iter_swap(documents, l, r)
    /\ tasks' = [tasks EXCEPT ![t] =
          [f EXCEPT !.deg_left = deg.left, !.deg_right = deg.right,
                    !.lit = f.lit + 1]]
    /\ UNCHANGED <<library, fwd, term_count, gains, depth, parallel_depth, cache_depth,
                   phase, m_count, m_goal, generation, gain_cache, mapping, calls>>

\* a faulty loop that stops refining after an iteration without any exchange
SwapExitWhenIdle(t) ==
    LET f == tasks[t] IN
    /\ f.pc = "swap"
    /\ ~SwapGoesOn(f)
    /\ tasks' = [tasks EXCEPT ![t] =
          IF f.iteration + 1 < Iterations /\ f.lit > 0
          THEN [f EXCEPT !.iteration = f.iteration + 1, !.pc = "gains"]
          ELSE [f EXCEPT !.iteration = f.iteration + 1, !.pc = "update",
                         !.cache_depth =
                             IF f.cache_depth >= 1 THEN f.cache_depth - 1
                             ELSE f.cache_depth]]
    /\ UNCHANGED <<library, fwd, term_count, documents, gains, depth, parallel_depth,
                   cache_depth, phase, m_count, m_goal, generation, gain_cache,
                   mapping, calls>>

\* a faulty driver that forgets --cache_depth after the caching kernel
SwapExitKeepingCacheDepth(t) ==
    LET f == tasks[t] IN
    /\ f.pc = "swap"
    /\ ~SwapGoesOn(f)
    /\ tasks' = [tasks EXCEPT ![t] =
          IF f.iteration + 1 < Iterations
          THEN [f EXCEPT !.iteration = f.iteration + 1, !.pc = "gains"]
          ELSE [f EXCEPT !.iteration = f.iteration + 1, !.pc = "update"]]
    /\ UNCHANGED <<library, fwd, term_count, documents, gains, depth, parallel_depth,
                   cache_depth, phase, m_count, m_goal, generation, gain_cache,
                   mapping, calls>>

\* swap returns (the break or the end of a half); ++iteration; after the last
\* iteration process_partition returns and the driver decrements cache_depth
\* if it chose the caching kernel
SwapExit(t) ==
    LET f == tasks[t] IN
    /\ f.pc = "swap"
    /\ ~SwapGoesOn(f)
    /\ tasks' = [tasks EXCEPT ![t] =
          IF f.iteration + 1 < Iterations
          THEN [f EXCEPT !.iteration = f.iteration + 1, !.pc = "gains"]
          ELSE [f EXCEPT !.iteration = f.iteration + 1, !.pc = "update",
                         !.cache_depth =
                             IF f.cache_depth >= 1 THEN f.cache_depth - 1
                             ELSE f.cache_depth]]
    /\ UNCHANGED <<library, fwd, term_count, documents, gains, depth, parallel_depth,
                   cache_depth, phase, m_count, m_goal, generation, gain_cache,
                   mapping, calls>>

\* a faulty update that takes no lock: a forked branch writes its sum from a
\* count it read before the updates of the other branches
UpdateProgressUnlocked(t) ==
    LET f == tasks[t] IN
    /\ f.pc = "update"
    /\ m_count' = IF t # Root /\ tasks[SubSeq(t, 1, Len(t) - 1)].pc = "join"
                  THEN Size(f)
                  ELSE m_count + Size(f)
    /\ tasks' = [tasks EXCEPT ![t] = [f EXCEPT !.pc = "branch"]]
    /\ UNCHANGED <<library, fwd, term_count, documents, gains, depth, parallel_depth,
                   cache_depth, phase, m_goal, generation, gain_cache, mapping, calls>>

\* p.update(documents.size())
UpdateProgress(t) ==
    LET f == tasks[t] IN
    /\ f.pc = "update"
    /\ m_count' = m_count + Size(f)
    /\ tasks' = [tasks EXCEPT ![t] = [f EXCEPT !.pc = "branch"]]
    /\ UNCHANGED <<library, fwd, term_count, documents, gains, depth, parallel_depth,
                   cache_depth, phase, m_goal, generation, gain_cache, mapping, calls>>

\* a faulty fork whose right child is given the whole range of its parent
ForkChildrenOverlapping(t) ==
    LET f == tasks[t] IN
    /\ f.pc = "branch"
    /\ Recurses(f)
    /\ f.parallel_depth > 0
    /\ tasks' =
          [tasks EXCEPT ![t] = [f EXCEPT !.pc = "join"]]
          @@ (Append(t, "l") :>
                 Frame(f.first, Mid(f), f.depth - 1, f.parallel_depth - 1,
                       f.cache_depth))
          @@ (Append(t, "r") :>
                 Frame(f.first, f.last, f.depth - 1, f.parallel_depth - 1,
                       f.cache_depth))
    /\ calls' = calls + 2
    /\ UNCHANGED <<library, fwd, term_count, documents, gains, depth, parallel_depth,
                   cache_depth, phase, m_count, m_goal, generation, gain_cache,
                   mapping>>

\* a faulty fork that passes parallel_depth on as it is
ForkChildrenKeepingDepth(t) ==
    LET f == tasks[t] IN
    /\ f.pc = "branch"
    /\ Recurses(f)
    /\ f.parallel_depth > 0
    /\ tasks' =
          [tasks EXCEPT ![t] = [f EXCEPT !.pc = "join"]]
          @@ (Append(t, "l") :>
                 Frame(f.first, Mid(f), f.depth - 1, f.parallel_depth,
                       f.cache_depth))
          @@ (Append(t, "r") :>
                 Frame(Mid(f), f.last, f.depth - 1, f.parallel_depth,
                       f.cache_depth))
    /\ calls' = calls + 2
    /\ UNCHANGED <<library, fwd, term_count, documents, gains, depth, parallel_depth,
                   cache_depth, phase, m_count, m_goal, generation, gain_cache,
                   mapping>>

\* tbb::parallel_invoke of the two recursive calls
ForkChildren(t) ==
    LET f == tasks[t] IN
    /\ f.pc = "branch"
    /\ Recurses(f)
    /\ f.parallel_depth > 0
    /\ tasks' =
          [tasks EXCEPT ![t] = [f EXCEPT !.pc = "join"]]
          @@ (Append(t, "l") :>
                 Frame(f.first, Mid(f), f.depth - 1, f.parallel_depth - 1,
                       f.cache_depth))
          @@ (Append(t, "r") :>
                 Frame(Mid(f), f.last, f.depth - 1, f.parallel_depth - 1,
                       f.cache_depth))
    /\ calls' = calls + 2
    /\ UNCHANGED <<library, fwd, term_count, documents, gains, depth, parallel_depth,
                   cache_depth, phase, m_count, m_goal, generation, gain_cache,
                   mapping>>

\* the sequential recursive call on partition.left
CallLeft(t) ==
    LET f == tasks[t] IN
    /\ f.pc = "branch"
    /\ Recurses(f)
    /\ f.parallel_depth = 0
    /\ tasks' =
          [tasks EXCEPT ![t] = [f EXCEPT !.pc = "left"]]
          @@ (Append(t, "l") :>
                 Frame(f.first, Mid(f), f.depth - 1, f.parallel_depth,
                       f.cache_depth))
    /\ calls' = calls + 1
    /\ UNCHANGED <<library, fwd, term_count, documents, gains, depth, parallel_depth,
                   cache_depth, phase, m_count, m_goal, generation, gain_cache,
                   mapping>>

\* the left call has returned: the sequential recursive call on partition.right
CallRight(t) ==
    LET f == tasks[t] IN
    /\ f.pc = "left"
    /\ tasks[Append(t, "l")].pc = "done"
    /\ tasks' =
          Without([tasks EXCEPT ![t] = [f EXCEPT !.pc = "right"]], {Append(t, "l")})
          @@ (Append(t, "r") :>
                 Frame(Mid(f), f.last, f.depth - 1, f.parallel_depth,
                       f.cache_depth))
    /\ calls' = calls + 1
    /\ UNCHANGED <<library, fwd, term_count, documents, gains, depth, parallel_depth,
                   cache_depth, phase, m_count, m_goal, generation, gain_cache,
                   mapping>>

\* the recursive calls have returned (the join of parallel_invoke, or the
\* return of the right call): the invocation returns
JoinChildren(t) ==
    LET f == tasks[t] IN
    /\ f.pc \in {"join", "right"}
    /\ \A c \in Children(t) : tasks[c].pc = "done"
    /\ tasks' = Without([tasks EXCEPT ![t] = [f EXCEPT !.pc = "done"]], Children(t))
    /\ UNCHANGED <<library, fwd, term_count, documents, gains, depth, parallel_depth,
                   cache_depth, phase, m_count, m_goal, generation, gain_cache,
                   mapping, calls>>

\* a faulty base case that sorts the whole range by id in one sort
SortByIdWhole(t) ==
    LET f == tasks[t] IN
    /\ f.pc = "branch"
    /\ ~Recurses(f)
    /\ documents' =
          Place(documents, f.first, sort_by_id(RangeIds(documents, f.first, f.last)))
    /\ tasks' = [tasks EXCEPT ![t] = [f EXCEPT !.pc = "done"]]
    /\ UNCHANGED <<library, fwd, term_count, gains, depth, parallel_depth, cache_depth,
                   phase, m_count, m_goal, generation, gain_cache, mapping, calls>>

\* the base case: both halves sorted by id, then the invocation returns
SortById(t) ==
    LET f == tasks[t] IN
    /\ f.pc = "branch"
    /\ ~Recurses(f)
    /\ documents' =
          Place(Place(documents, f.first,
                      sort_by_id(RangeIds(documents, f.first, Mid(f)))),
                Mid(f), sort_by_id(RangeIds(documents, Mid(f), f.last)))
    /\ tasks' = [tasks EXCEPT ![t] = [f EXCEPT !.pc = "done"]]
    /\ UNCHANGED <<library, fwd, term_count, gains, depth, parallel_depth, cache_depth,
                   phase, m_count, m_goal, generation, gain_cache, mapping, calls>>

\* the driver has returned: auto mapping = get_mapping(documents)
GetMapping ==
    /\ phase = "running"
    /\ tasks[Root].pc = "done"
    /\ mapping' = get_mapping(documents)
    /\ phase' = "done"
    /\ tasks' = <<>>
    /\ UNCHANGED <<library, fwd, term_count, documents, gains, depth, parallel_depth,
                   cache_depth, m_count, m_goal, generation, gain_cache, calls>>

Next ==
    \/ MainStart
    \/ CallBisection
    \/ GetMapping
    \/ \E t \in DOMAIN tasks :
        \/ ComputeDegrees(t)
        \/ ComputeGains(t)
        \/ SortByGain(t)
        \/ \E side \in Sides : ComputeGainsSide(t, side)
        \/ \E side \in Sides : SortSide(t, side)
        \/ SwapStep(t)
        \/ SwapExit(t)
        \/ UpdateProgress(t)
        \/ ForkChildren(t)
        \/ CallLeft(t)
        \/ CallRight(t)
        \/ JoinChildren(t)
        \/ SortById(t)

Spec == Init /\ [][Next]_vars

\* ------------------------------------------------------- permutations
\* v holds every value of 0 .. n - 1 exactly once, at the indexes 0 .. n - 1
IsPermutation(v, n) ==
    /\ DOMAIN v = 0 .. n - 1
    /\ \A id \in 0 .. n - 1 : Cardinality({p \in DOMAIN v : v[p] = id}) = 1

Identity(n) == [i \in 0 .. n - 1 |-> i]

\* C1: whatever the forward index, depth, parallel_depth and cache_depth, the
\* mapping get_mapping returns after the driver is a permutation of [0, D)
C1_MappingIsPermutation == phase = "done" => IsPermutation(mapping, NumDocs)

\* a run that ends with a mapping other than the identity
C1_Witness == phase = "done" /\ mapping # Identity(NumDocs)

\* C2: between any two steps of the bisection the handle array holds every
\* handle of the initial array exactly once
C2_HandlesConserved == IsPermutation(documents, NumDocs)

\* an invocation in the middle of its swap loop, one pair exchanged
C2_Witness ==
    \E t \in DOMAIN tasks :
        /\ tasks[t].pc = "swap"
        /\ tasks[t].lit >= 1
        /\ documents # Identity(NumDocs)

\* C3: the mapping has length D and is the inverse of the final handle order:
\* mapping[id of the handle at p] = p for every position p
C3_MappingIsInverse ==
    phase = "done" =>
        /\ DOMAIN mapping = 0 .. NumDocs - 1
        /\ \A p \in DOMAIN documents : mapping[documents[p]] = p

\* a final order that is not its own inverse
C3_Witness ==
    /\ phase = "done"
    /\ \E p \in DOMAIN documents : documents[documents[p]] # p

\* the invocation t is inside process_partition, its degrees computed
InPartition(f) == f.pc \in {"gains", "sort", "swap", "update"}

\* C4: for every partition and term, deg_left[term] + deg_right[term] keeps
\* the value it has at partition entry over every step up to the return of
\* process_partition, each swap step included
C4_DegreeSumConstant ==
    [][\A t \in DOMAIN tasks \cap DOMAIN tasks' :
          (InPartition(tasks[t]) /\ InPartition(tasks'[t])) =>
              \A term \in 0 .. term_count - 1 :
                  tasks'[t].deg_left[term] + tasks'[t].deg_right[term]
                      = tasks[t].deg_left[term] + tasks[t].deg_right[term]]_vars

\* a swap step has exchanged two documents of different term lists and moved
\* a degree from one side to the other
C4_Witness ==
    \E t \in DOMAIN tasks :
        LET f == tasks[t] IN
        /\ f.pc = "swap"
        /\ f.lit >= 1
        /\ fwd[documents[f.first]] # fwd[documents[Mid(f)]]
        /\ f.deg_left # compute_degrees(fwd, term_count, Identity(NumDocs),
                                        f.first, Mid(f))

\* ---------------------------------------------------------- total cost
\* the cost function of one partition: the sum over all terms of
\* expb(log2(n1), log2(n2), deg_left[term], deg_right[term])
TotalCost(n1, n2, deg_left, deg_right) ==
    SumOver([term \in DOMAIN deg_left |->
                expb(log2(n1), log2(n2), deg_left[term], deg_right[term])],
            DOMAIN deg_left)

\* the total cost of the invocation f as its degree maps stand
CostNow(f) == TotalCost(Mid(f) - f.first, f.last - Mid(f), f.deg_left, f.deg_right)

RECURSIVE Unswapped(_, _, _, _)
\* the handle array with the first k aligned pairs of the halves exchanged back
Unswapped(docs, first, mid, k) ==
    IF k = 0 THEN docs
    ELSE Unswapped(iter_swap(docs, first + k - 1, mid + k - 1), first, mid, k - 1)

\* the total cost of the invocation f before the swap phase it is in began
CostBefore(f) ==
    LET before == Unswapped(documents, f.first, Mid(f), f.lit)
    IN  TotalCost(Mid(f) - f.first, f.last - Mid(f),
                  compute_degrees(fwd, term_count, before, f.first, Mid(f)),
                  compute_degrees(fwd, term_count, before, Mid(f), f.last))

\* C5 as stated: no iteration's swap phase leaves the partition with a higher
\* total cost than it had before that iteration
C5_CostNonIncreasing ==
    \A t \in DOMAIN tasks :
        (tasks[t].pc = "swap" /\ ~SwapGoesOn(tasks[t])) =>
            CostNow(tasks[t]) <= CostBefore(tasks[t])

\* the step from the invocation f to g has changed a degree map, and the
\* total cost with it
CostChanged(f, g) ==
    /\ (g.deg_left # f.deg_left \/ g.deg_right # f.deg_right)
    /\ CostNow(g) # CostNow(f)

\* C5 amended: within one process_partition call the total cost changes only
\* when the swap phase exchanges a pair, and a pair is exchanged only when its
\* two stored gains add up to more than 0
C5_CostChangesBySwap ==
    [][\A t \in DOMAIN tasks \cap DOMAIN tasks' :
          LET f == tasks[t]
              g == tasks'[t]
          IN  (InPartition(f) /\ InPartition(g)) =>
                  /\ CostChanged(f, g) => g.lit = f.lit + 1
                  /\ g.lit = f.lit + 1 =>
                        gains[documents[f.first + f.lit]]
                            + gains[documents[Mid(f) + f.lit]] > 0]_vars

\* a swap phase has ended with a total cost above the one it began with
C5_Witness ==
    \E t \in DOMAIN tasks :
        /\ tasks[t].pc = "swap"
        /\ ~SwapGoesOn(tasks[t])
        /\ tasks[t].lit >= 1
        /\ CostNow(tasks[t]) > CostBefore(tasks[t])

\* ------------------------------------------------------------ scenarios
\* the run is the one of Scenario B
IsScenarioB ==
    /\ fwd = ScenarioB.fwd
    /\ term_count = ScenarioB.term_count
    /\ depth = ScenarioB.depth
    /\ Root \in DOMAIN tasks

\* the handles of the two halves of the invocation f
LeftIds(f) == RangeIds(documents, f.first, Mid(f))

RightIds(f) == RangeIds(documents, Mid(f), f.last)

\* C6 as stated: in Scenario B, after process_partition one half holds the
\* handles {0,2} and the other holds {1,3}
C6_HalvesByTerm ==
    (IsScenarioB /\ tasks[Root].pc = "update") =>
        {LeftIds(tasks[Root]), RightIds(tasks[Root])} = {{0, 2}, {1, 3}}

\* C6 amended: in Scenario B every swap phase exchanges both aligned pairs
\* of handles, and after process_partition the left half holds {0,1} and the
\* right half {2,3}, as at the start
C6_HalvesExchanged ==
    IsScenarioB =>
        LET f == tasks[Root] IN
        /\ (f.pc = "swap" /\ ~SwapGoesOn(f)) => f.lit = 2
        /\ f.pc = "update" => (LeftIds(f) = {0, 1} /\ RightIds(f) = {2, 3})

\* Scenario B at the return of process_partition, the 20 iterations done
C6_Witness ==
    /\ IsScenarioB
    /\ tasks[Root].pc = "update"
    /\ tasks[Root].iteration = Iterations

\* the run is the one of Scenario C, and the driver has returned
IsScenarioCDone ==
    /\ fwd = ScenarioC.fwd
    /\ term_count = ScenarioC.term_count
    /\ depth = ScenarioC.depth
    /\ phase = "done"

\* the ids of the documents at the positions ps of the final handle array
IdsAt(ps) == {documents[p] : p \in ps}

\* C7 as stated: in Scenario C the final handle array has all even-id
\* documents in one contiguous half and all odd-id documents in the other
C7_EvenOddHalves ==
    IsScenarioCDone =>
        {IdsAt(0 .. 3), IdsAt(4 .. 7)} = {{0, 2, 4, 6}, {1, 3, 5, 7}}

\* C7 amended: in Scenario C the final handle array holds the handles 0..3 in
\* its first half and 4..7 in its second half, and in each half the two
\* odd-id documents come first and the two even-id documents last
C7_OddEvenQuarters ==
    IsScenarioCDone =>
        /\ IdsAt(0 .. 1) = {1, 3}
        /\ IdsAt(2 .. 3) = {0, 2}
        /\ IdsAt(4 .. 5) = {5, 7}
        /\ IdsAt(6 .. 7) = {4, 6}

\* Scenario C has run to its end
C7_Witness == IsScenarioCDone /\ IsPermutation(mapping, 8)

\* ---------------------------------------------------------- edge cases
\* every document has the identical term set
Uniform == \A d, e \in DOMAIN fwd : fwd[d] = fwd[e]

\* the degree map of n documents of the term set S
UniformDegrees(S, n) == [term \in 0 .. term_count - 1 |-> IF term \in S THEN n ELSE 0]

Reversal(n) == [i \in 0 .. n - 1 |-> n - 1 - i]

\* C8 as stated: with identical term sets every gain is zero, the swap phase
\* never exchanges a pair, and the mapping is the identity or a reversal
C8_UniformNoSwap ==
    Uniform =>
        /\ \A d \in DOMAIN gains : gains[d] = 0
        /\ \A t \in DOMAIN tasks : tasks[t].lit = 0
        /\ phase = "done" => mapping \in {Identity(NumDocs), Reversal(NumDocs)}

\* C8 amended: when every document has the identical term set S, the swap
\* phase leaves both degree maps as they were at partition entry (n1 and n2
\* for the terms of S, 0 for the others) whatever it exchanges, and when S is
\* empty every gain is zero and no pair is exchanged
C8_UniformDegreesKept ==
    Uniform =>
        \A d \in DOMAIN fwd :
            /\ \A t \in DOMAIN tasks :
                  LET f == tasks[t] IN
                  InPartition(f) =>
                      /\ f.deg_left = UniformDegrees(fwd[d], Mid(f) - f.first)
                      /\ f.deg_right = UniformDegrees(fwd[d], f.last - Mid(f))
                      /\ fwd[d] = {} => f.lit = 0
            /\ fwd[d] = {} => \A e \in DOMAIN gains : gains[e] = 0

\* documents of one non-empty term set, with gains above zero, a pair of them
\* exchanged
C8_Witness ==
    /\ Uniform
    /\ NumDocs >= 2
    /\ \A d \in DOMAIN fwd : fwd[d] # {} /\ gains[d] > 0
    /\ \E t \in DOMAIN tasks : tasks[t].pc = "swap" /\ tasks[t].lit >= 1

\* the run is one of two documents, the root invocation active
TwoDocuments == NumDocs = 2 /\ Root \in DOMAIN tasks

\* C9 as stated: for D = 2 the halves are singletons and in none of the 20
\* iterations does the swap phase exchange the two handles
C9_TwoDocsNoSwap ==
    TwoDocuments => (Mid(tasks[Root]) = 1 /\ tasks[Root].lit = 0)

\* C9 amended: for D = 2 the halves are singletons; the swap phase exchanges
\* the two handles in every one of the 20 iterations when the two documents
\* share a term and in none when they share no term, and either way the
\* handle order after the refinement loop is the initial one
C9_TwoDocsSwapIfShared ==
    TwoDocuments =>
        LET f == tasks[Root] IN
        /\ Mid(f) = 1
        /\ (f.pc = "swap" /\ ~SwapGoesOn(f)) =>
              (f.lit = 1 <=> fwd[0] \cap fwd[1] # {})
        /\ f.pc \in {"update", "branch", "done"} => documents = Identity(2)

\* two documents that share a term, exchanged in the last iteration
C9_Witness ==
    /\ TwoDocuments
    /\ fwd[0] \cap fwd[1] # {}
    /\ tasks[Root].pc = "swap"
    /\ tasks[Root].iteration = Iterations - 1
    /\ tasks[Root].lit = 1

\* C10: a top-level range of fewer than 2 documents raises no error and
\* returns the identity mapping, with the depth left at 0 (auto) too
C10_SmallRangeIdentity ==
    NumDocs < 2 =>
        /\ phase # "error"
        /\ phase = "done" => mapping = Identity(NumDocs)

\* ------------------------------------------------- an empty dictionary
\* the index has documents and no terms
NoTerms == term_count = 0 /\ NumDocs > 0

\* the run recurses below its top-level invocation
TopRecurses == depth > 1 /\ NumDocs > 2

C12_InvalidInputRejected ==
    (NumDocs = 0 \/ NoTerms) => phase # "done"

\* ------------------------------------------------------ kernel agreement
\* the gains compute_gains would write now for the invocation f, with the
\* caching kernel or the plain one
GainsBy(caching, f) ==
    compute_gains(caching, gains, gain_cache, generation, fwd, documents,
                  f.first, Mid(f), f.last, f.deg_left, f.deg_right).gains

\* C13: on the same range, sizes and degree maps the plain kernel and the
\* caching kernel write the same gain for every handle, whatever the cache
\* holds from earlier passes
C13_KernelsAgree ==
    \A t \in DOMAIN tasks :
        tasks[t].pc = "gains" => GainsBy(TRUE, tasks[t]) = GainsBy(FALSE, tasks[t])

\* a gain pass is due while the cache holds a value of the pass before, and
\* the degrees have changed since
C13_Witness ==
    \E t \in DOMAIN tasks :
        LET f == tasks[t] IN
        /\ f.pc = "gains"
        /\ f.cache_depth >= 1
        /\ f.iteration >= 1
        /\ \E term \in DOMAIN gain_cache :
              /\ gain_cache[term].m_generation = generation
              /\ gain_cache[term].m_value
                    # term_gain(log2(Mid(f) - f.first), log2(f.last - Mid(f)),
                                f.deg_left[term], f.deg_right[term])

\* ------------------------------------------ sequential reference runs
RECURSIVE SwapAll(_, _, _, _, _, _)
\* swap run to its end on the halves [first, mid) and [mid, last) of docs,
\* from the k-th aligned pair on
SwapAll(docs, g, first, mid, last, k) ==
    IF /\ first + k < mid
       /\ mid + k < last
       /\ g[docs[first + k]] + g[docs[mid + k]] > 0
    THEN SwapAll(iter_swap(docs, first + k, mid + k), g, first, mid, last, k + 1)
    ELSE docs

\* the arrangements one iteration of process_partition can turn docs into:
\* gains of the plain kernel, both halves sorted by gain, swap
OneIteration(docs, first, last) ==
    LET mid == split(first, last)
        g == compute_gains(FALSE, gains, gain_cache, generation, fwd, docs,
                           first, mid, last,
                           compute_degrees(fwd, term_count, docs, first, mid),
                           compute_degrees(fwd, term_count, docs, mid, last)).gains
    IN  { SwapAll(Place(Place(docs, first, ls), mid, rs), g, first, mid, last, 0) :
            ls \in by_gain(RangeIds(docs, first, mid), g),
            rs \in by_gain(RangeIds(docs, mid, last), g) }

RECURSIVE Refined(_, _, _, _)
\* the arrangements k more iterations can turn those of the set S into
Refined(S, first, last, k) ==
    IF k = 0 THEN S
    ELSE UNION {OneIteration(docs, first, last) : docs \in Refined(S, first, last, k - 1)}

\* the base case applied to docs
LeafSorted(docs, first, last) ==
    LET mid == split(first, last)
    IN  Place(Place(docs, first, sort_by_id(RangeIds(docs, first, mid))),
              mid, sort_by_id(RangeIds(docs, mid, last)))

RECURSIVE Bisected(_, _, _, _)
\* the arrangements recursive_graph_bisection run on one thread can turn
\* those of the set S into on [first, last) at depth d: the call on the left
\* half has returned, with the arrangements L, when the right one is made
Bisected(S, first, last, d) ==
    LET mid == split(first, last)
        R == Refined(S, first, last, Iterations)
    IN  IF d > 1 /\ last - first > 2
        THEN UNION { Bisected(L, mid, last, d - 1) :
                       L \in {Bisected(R, first, mid, d - 1)} }
        ELSE {LeafSorted(docs, first, last) : docs \in R}

\* the final orders of the sequential run on the forward index of this run
SequentialOrders == Bisected({Identity(NumDocs)}, 0, NumDocs, depth)

\* the total cost of an order of the whole array: that of its two halves
OrderCost(docs) ==
    LET mid == split(0, NumDocs)
    IN  TotalCost(mid, NumDocs - mid,
                  compute_degrees(fwd, term_count, docs, 0, mid),
                  compute_degrees(fwd, term_count, docs, mid, NumDocs))

\* the run has forked and returned
ParallelDone == phase = "done" /\ parallel_depth > 0

\* C14 as stated: the final order of a run with parallel forks has the total
\* cost of the final order of the sequential run on the same input
C14_SameCost ==
    ParallelDone =>
        \A docs \in SequentialOrders : OrderCost(documents) = OrderCost(docs)

\* C14 amended: whatever the interleaving of the parallel branches, the final
\* order of a run with parallel forks is one the sequential run on the same
\* input can end with, for some order std::sort gives handles of equal gain
C14_OrderOfSequentialRun == ParallelDone => documents \in SequentialOrders

\* a forked run has returned an order other than the initial one, and the
\* sequential run has final orders of different total cost
C14_Witness ==
    /\ ParallelDone
    /\ documents # Identity(NumDocs)
    /\ \E docs \in SequentialOrders : OrderCost(docs) # OrderCost(documents)

\* ------------------------------------------------------------------ C15
\* an invocation that is executing its own code: it has been called and is
\* neither waiting for its recursive calls nor returned
Active(t) == tasks[t].pc \notin {"join", "left", "right", "done"}

Positions(f) == f.first .. (f.last - 1)

Parent(t) == SubSeq(t, 1, Len(t) - 1)

\* C15: any two invocations that are active at the same moment work on
\* disjoint contiguous subranges [first, last) of the handle array, so no
\* position is read or written by two of them; a child invocation exists only
\* once its parent has finished process_partition (the parent is at its
\* recursive calls), and the range of a child lies inside its parent's range
C15_DisjointRanges ==
    /\ \A t1, t2 \in DOMAIN tasks :
          (t1 # t2 /\ Active(t1) /\ Active(t2)) =>
             Positions(tasks[t1]) \cap Positions(tasks[t2]) = {}
    /\ \A t \in DOMAIN tasks :
          /\ tasks[t].first <= tasks[t].last
          /\ t # Root =>
                /\ Parent(t) \in DOMAIN tasks
                /\ tasks[Parent(t)].pc \in {"join", "left", "right"}
                /\ tasks[Parent(t)].iteration = Iterations
                /\ Positions(tasks[t]) \subseteq Positions(tasks[Parent(t)])

\* two forked children both inside their refinement, each on a range of its
\* own, while the parent waits at the join
C15_Witness ==
    /\ phase = "running"
    /\ \E t \in DOMAIN tasks :
          /\ tasks[t].pc = "join"
          /\ Children(t) = {Append(t, "l"), Append(t, "r")}
          /\ \A c \in Children(t) :
                tasks[c].pc = "swap" /\ tasks[c].iteration > 0 /\ Size(tasks[c]) > 0

\* ------------------------------------------------------------------ C16
\* the slots of the gain-scratch array that the gain pass of a range writes:
\* range.gain(d) is gains[d.id] for every handle d of the range
GainSlots(docs, first, last) == RangeIds(docs, first, last)

\* C16: no slot of the gain-scratch array is written by two tasks that can
\* run at the same time: two active invocations write disjoint sets of slots,
\* the pass over the left half and the pass over the right half of one
\* compute_gains write disjoint sets of slots, and the per-document loop of a
\* kernel writes a different slot for every position of its range
C16_NoSharedGainSlot ==
    /\ \A t1, t2 \in DOMAIN tasks :
          (t1 # t2 /\ Active(t1) /\ Active(t2)) =>
             GainSlots(documents, tasks[t1].first, tasks[t1].last)
                \cap GainSlots(documents, tasks[t2].first, tasks[t2].last) = {}
    /\ \A t \in DOMAIN tasks :
          Active(t) =>
             /\ GainSlots(documents, tasks[t].first, Mid(tasks[t]))
                   \cap GainSlots(documents, Mid(tasks[t]), tasks[t].last) = {}
             /\ \A p, q \in Positions(tasks[t]) :
                   p # q => documents[p] # documents[q]

\* two forked invocations are both about to run compute_gains after earlier
\* iterations, each on a range with two handles or more
C16_Witness ==
    \E t1, t2 \in DOMAIN tasks :
       /\ t1 # t2
       /\ \A t \in {t1, t2} :
             /\ tasks[t].pc = "gains"
             /\ tasks[t].iteration > 0
             /\ Size(tasks[t]) >= 2
       /\ documents # Identity(NumDocs)

\* ------------------------------------------------------------------ C17
\* the sizes of partition.left = [first, mid) and partition.right = [mid, last)
LeftSize(f) == Mid(f) - f.first

RightSize(f) == f.last - Mid(f)

\* C17 as stated: the range of every invocation is split into [first, mid)
\* and [mid, last) with |left| - |right| in {0, 1}, the left half never the
\* smaller one
C17_LeftNotSmaller ==
    \A t \in DOMAIN tasks :
       /\ tasks[t].first <= Mid(tasks[t]) /\ Mid(tasks[t]) <= tasks[t].last
       /\ LeftSize(tasks[t]) - RightSize(tasks[t]) \in {0, 1}

\* C17 amended: the range of every invocation is split into [first, mid) and
\* [mid, last) with |right| - |left| in {0, 1}: the left half is never the
\* larger one, and it is the smaller one exactly when the size is odd
C17_LeftNotLarger ==
    \A t \in DOMAIN tasks :
       /\ tasks[t].first <= Mid(tasks[t]) /\ Mid(tasks[t]) <= tasks[t].last
       /\ LeftSize(tasks[t]) + RightSize(tasks[t]) = Size(tasks[t])
       /\ RightSize(tasks[t]) - LeftSize(tasks[t]) \in {0, 1}
       /\ RightSize(tasks[t]) - LeftSize(tasks[t]) = Size(tasks[t]) % 2

\* an invocation on a range of odd size, three handles or more and not at the
\* start of the array, is refining the partition that split gave it
C17_Witness ==
    \E t \in DOMAIN tasks :
       /\ tasks[t].pc = "swap"
       /\ Size(tasks[t]) % 2 = 1
       /\ Size(tasks[t]) >= 3
       /\ tasks[t].first > 0

\* ------------------------------------------------------------------ C18
\* the handles at positions [first, last) are in strictly ascending id order
Ascending(docs, first, last) ==
    \A p, q \in first .. (last - 1) : p < q => docs[p] < docs[q]

\* the driver's base case: depth <= 1 or a range of at most two handles
BaseCase(f) == f.depth <= 1 \/ Size(f) <= 2

\* C18: an invocation with depth <= 1 or a range of at most two handles makes
\* no recursive call, and when it has returned its left half and its right
\* half are each in strictly ascending id order
C18_BaseCaseSorted ==
    \A t \in DOMAIN tasks :
       BaseCase(tasks[t]) =>
          /\ Children(t) = {}
          /\ tasks[t].pc \notin {"join", "left", "right"}
          /\ tasks[t].pc = "done" =>
                /\ Ascending(documents, tasks[t].first, Mid(tasks[t]))
                /\ Ascending(documents, Mid(tasks[t]), tasks[t].last)

\* a base-case invocation has returned with a half of two handles or more
\* that holds other handles than the ones it started with
C18_Witness ==
    \E t \in DOMAIN tasks :
       /\ BaseCase(tasks[t])
       /\ tasks[t].pc = "done"
       /\ RightSize(tasks[t]) >= 2
       /\ \E p \in Mid(tasks[t]) .. (tasks[t].last - 1) : documents[p] # p

\* ------------------------------------------------------------------ C20
\* C20: process_partition computes the degree maps before its first iteration
\* only, and returns after exactly 20 iterations of compute_gains, sort and
\* swap: an invocation inside an iteration has completed fewer than 20, and
\* an invocation past process_partition has completed 20, whether or not the
\* iterations exchanged anything
C20_TwentyIterations ==
    /\ Iterations = 20
    /\ \A t \in DOMAIN tasks :
          /\ tasks[t].iteration \in 0 .. Iterations
          /\ tasks[t].pc = "degrees" => tasks[t].iteration = 0
          /\ tasks[t].pc \in {"gains", "sort", "swap"} =>
                tasks[t].iteration < Iterations
          /\ tasks[t].pc \in {"update", "branch", "join", "left", "right", "done"} =>
                tasks[t].iteration = Iterations

\* process_partition has returned after its 20th iteration on an input whose
\* gains are all zero, so that no iteration exchanged a pair
C20_Witness ==
    /\ NoTerms
    /\ \A d \in DOMAIN gains : gains[d] = 0
    /\ \E t \in DOMAIN tasks :
          /\ tasks[t].pc = "update"
          /\ tasks[t].iteration = Iterations
          /\ tasks[t].lit = 0
          /\ Size(tasks[t]) >= 2

\* ------------------------------------------------------------------ C21
\* the number of position-aligned pairs (left[i], right[i]) of a partition
PairCount(f) == Min({LeftSize(f), RightSize(f)})

\* gain(left[i]) + gain(right[i]) in the handle array docs
GainSum(docs, f, i) == gains[docs[f.first + i]] + gains[docs[Mid(f) + i]]

\* the smallest index whose pair has a gain sum <= 0, or the number of pairs
StopIndex(docs, f) ==
    LET stops == {i \in 0 .. PairCount(f) - 1 : GainSum(docs, f, i) <= 0}
    IN  IF stops = {} THEN PairCount(f) ELSE Min(stops)

\* the handles at [first, last) of docs are in non-increasing order of gain
NonIncreasing(docs, first, last) ==
    \A p, q \in first .. (last - 1) : p < q => gains[docs[p]] >= gains[docs[q]]

\* the handle array as the sorts left it, the exchanges of the swap phase undone
SortedOrder(f) == Unswapped(documents, f.first, Mid(f), f.lit)

\* an invocation between the end of a swap phase and the next gain pass or
\* the end of its refinement
SwapDone(f) ==
    \/ f.pc \in {"update", "branch"}
    \/ (f.pc = "gains" /\ f.iteration > 0 /\ f.sides = {})

DegreesComputed(f) ==
    /\ f.deg_left = compute_degrees(fwd, term_count, documents, f.first, Mid(f))
    /\ f.deg_right = compute_degrees(fwd, term_count, documents, Mid(f), f.last)

\* the gain of every handle of both halves of f is the one the gain pass of
\* its side writes from the degree maps of f
GainsComputed(f) ==
    /\ \A d \in LeftIds(f) :
          gains[d] = document_gain(fwd[d], log2(LeftSize(f)), log2(RightSize(f)),
                                   f.deg_left, f.deg_right)
    /\ \A d \in RightIds(f) :
          gains[d] = document_gain(fwd[d], log2(RightSize(f)), log2(LeftSize(f)),
                                   f.deg_right, f.deg_left)

\* C22: the steps of an iteration are ordered, also when their two sides run
\* as parallel tasks: while the first gain pass is due or under way both
\* degree maps are complete; while a sort is due or under way the gain passes
\* of both sides are complete; in the swap phase both sorts are complete
C22_StepsInOrder ==
    \A t \in DOMAIN tasks :
       /\ tasks[t].sides # {} => tasks[t].pc \in {"degrees", "gains", "sort"}
       /\ (tasks[t].pc = "gains" /\ tasks[t].iteration = 0) =>
             DegreesComputed(tasks[t])
       /\ tasks[t].pc = "sort" => GainsComputed(tasks[t])
       /\ tasks[t].pc = "swap" =>
             /\ NonIncreasing(SortedOrder(tasks[t]), tasks[t].first, Mid(tasks[t]))
             /\ NonIncreasing(SortedOrder(tasks[t]), Mid(tasks[t]), tasks[t].last)

\* in a forked invocation the sort of the left half has completed while the
\* right half, not yet sorted, is out of order
C22_Witness ==
    \E t \in DOMAIN tasks :
       /\ tasks[t].pc = "sort"
       /\ tasks[t].parallel_depth > 0
       /\ tasks[t].sides = {"left"}
       /\ ~NonIncreasing(documents, Mid(tasks[t]), tasks[t].last)

\* ------------------------------------------------------------------ C23
\* the caching kernel on the left half of f from the current cache, and on
\* the right half of f from the cache the left pass leaves
LeftPass(f) ==
    compute_move_gains_caching(gains, gain_cache, generation, fwd, documents,
        f.first, Mid(f), LeftSize(f), RightSize(f), f.deg_left, f.deg_right)

RightPass(f) ==
    compute_move_gains_caching(LeftPass(f).gains, LeftPass(f).cache,
        LeftPass(f).generation, fwd, documents, Mid(f), f.last, RightSize(f),
        LeftSize(f), f.deg_right, f.deg_left)

\* no entry of cache counts as filled under the generation gen
NoneValid(cache, gen) == \A term \in DOMAIN cache : ~has_value(cache[term], gen)

\* every entry of cache that counts as filled under the generation gen holds
\* the term gain of the pass with the sizes and degree maps given
ValidAreOf(cache, gen, from_n, to_n, from_lex, to_lex) ==
    \A term \in DOMAIN cache :
       has_value(cache[term], gen) =>
          cache[term].m_value =
             term_gain(log2(from_n), log2(to_n), from_lex[term], to_lex[term])

\* C23: when the caching kernel runs, no entry left by an earlier pass counts
\* as filled at the start of the pass over the left half, and none left by
\* the pass over the left half counts as filled at the start of the pass over
\* the right half; every entry that counts as filled during a pass was
\* computed in that pass from its sizes and degree maps, so a hit returns
\* that value only
C23_HitsAreOfThisPass ==
    \A t \in DOMAIN tasks :
       (tasks[t].pc = "gains" /\ tasks[t].cache_depth >= 1 /\ tasks[t].sides = {}) =>
          /\ NoneValid(gain_cache, LeftPass(tasks[t]).generation)
          /\ ValidAreOf(LeftPass(tasks[t]).cache, LeftPass(tasks[t]).generation,
                        LeftSize(tasks[t]), RightSize(tasks[t]),
                        tasks[t].deg_left, tasks[t].deg_right)
          /\ NoneValid(LeftPass(tasks[t]).cache, RightPass(tasks[t]).generation)
          /\ ValidAreOf(RightPass(tasks[t]).cache, RightPass(tasks[t]).generation,
                        RightSize(tasks[t]), LeftSize(tasks[t]),
                        tasks[t].deg_right, tasks[t].deg_left)

\* the caching kernel is due on a half whose two documents share a term, so
\* that the second lookup of that term is a hit, while the cache holds for
\* that term a value of an earlier pass that differs from the one now due
C23_Witness ==
    \E t \in DOMAIN tasks :
       /\ tasks[t].pc = "gains"
       /\ tasks[t].cache_depth >= 1
       /\ tasks[t].iteration >= 1
       /\ \E term \in DOMAIN gain_cache :
             /\ \E p, q \in tasks[t].first .. (Mid(tasks[t]) - 1) :
                   p # q /\ term \in fwd[documents[p]] /\ term \in fwd[documents[q]]
             /\ gain_cache[term].m_generation >= 1
             /\ gain_cache[term].m_value #
                   term_gain(log2(LeftSize(tasks[t])), log2(RightSize(tasks[t])),
                             tasks[t].deg_left[term], tasks[t].deg_right[term])

\* ------------------------------------------------------------------ C24
\* the cost of one term with the degrees d1, d2 on sides of n1, n2 documents:
\* d1 (log2 n1 - log2(d1 + 1)) + d2 (log2 n2 - log2(d2 + 1)), as expb has it
cost_term(d1, d2, n1, n2) == expb(log2(n1), log2(n2), d1, d2)

\* the sum over the terms of cost_term before the move of one document off
\* the side of n1 documents minus cost_term after it
MoveGain(terms, n1, n2, from_lex, to_lex) ==
    SumOver([term \in terms |->
                cost_term(from_lex[term], to_lex[term], n1, n2)
                   - cost_term(from_lex[term] - 1, to_lex[term] + 1, n1, n2)],
            terms)

\* the degree map deg after a document with the term list terms has left
\* (by = -1) or joined (by = 1) its side
Moved(deg, terms, by) ==
    [term \in DOMAIN deg |-> IF term \in terms THEN deg[term] + by ELSE deg[term]]

\* the total cost, for halves of n1 and n2 documents, of the degree maps of f
\* once the document d alone has gone from its half to the other
CostAfterMove(f, d, n1, n2) ==
    IF d \in LeftIds(f)
    THEN TotalCost(n1, n2, Moved(f.deg_left, fwd[d], -1), Moved(f.deg_right, fwd[d], 1))
    ELSE TotalCost(n1, n2, Moved(f.deg_left, fwd[d], 1), Moved(f.deg_right, fwd[d], -1))

\* the sizes of the halves of f once the document d has changed its half
LeftSizeAfterMove(f, d) == IF d \in LeftIds(f) THEN LeftSize(f) - 1 ELSE LeftSize(f) + 1

RightSizeAfterMove(f, d) == IF d \in LeftIds(f) THEN RightSize(f) + 1 ELSE RightSize(f) - 1

\* the gains of the handles of f are the sums of cost_term differences
GainsAreMoveGains(f) ==
    /\ \A d \in LeftIds(f) :
          gains[d] = MoveGain(fwd[d], LeftSize(f), RightSize(f), f.deg_left, f.deg_right)
    /\ \A d \in RightIds(f) :
          gains[d] = MoveGain(fwd[d], RightSize(f), LeftSize(f), f.deg_right, f.deg_left)

\* C24 as stated: once compute_gains has returned, the gain of every handle
\* of left is the sum over its terms of cost_term(deg_left, deg_right, n1, n2)
\* - cost_term(deg_left - 1, deg_right + 1, n1, n2), the gain of every handle
\* of right is the same with left and right exchanged, and the move of a
\* handle of positive gain alone to the other half lowers the total cost
C24_GainLowersCostOfMove ==
    \A t \in DOMAIN tasks :
       tasks[t].pc = "sort" =>
          /\ GainsAreMoveGains(tasks[t])
          /\ \A d \in LeftIds(tasks[t]) \cup RightIds(tasks[t]) :
                gains[d] > 0 =>
                   CostAfterMove(tasks[t], d, LeftSizeAfterMove(tasks[t], d),
                                 RightSizeAfterMove(tasks[t], d))
                      < CostNow(tasks[t])

\* the total cost of f as the gain kernel evaluates it for the handle d: the
\* single-precision cost_term with the half of d as its first side
CostSeenFrom(f, d) ==
    IF d \in LeftIds(f)
    THEN TotalCost(LeftSize(f), RightSize(f), f.deg_left, f.deg_right)
    ELSE TotalCost(RightSize(f), LeftSize(f), f.deg_right, f.deg_left)

\* the same cost once d alone has gone to the other half, the sizes of the
\* halves left as they are
CostSeenFromAfterMove(f, d) ==
    IF d \in LeftIds(f)
    THEN TotalCost(LeftSize(f), RightSize(f),
                   Moved(f.deg_left, fwd[d], -1), Moved(f.deg_right, fwd[d], 1))
    ELSE TotalCost(RightSize(f), LeftSize(f),
                   Moved(f.deg_right, fwd[d], -1), Moved(f.deg_left, fwd[d], 1))

\* C24 amended: the gains are those sums, and the move of a handle of
\* positive gain alone to the other half lowers the total cost as the kernel
\* evaluates it: in single precision with the half of the handle as the
\* first side of cost_term, and with the sizes n1 and n2 the halves have
\* before the move
C24_GainIsCostDecrease ==
    \A t \in DOMAIN tasks :
       tasks[t].pc = "sort" =>
          /\ GainsAreMoveGains(tasks[t])
          /\ \A d \in LeftIds(tasks[t]) \cup RightIds(tasks[t]) :
                gains[d] > 0 =>
                   CostSeenFromAfterMove(tasks[t], d) < CostSeenFrom(tasks[t], d)

\* compute_gains has returned with a positive gain for a handle of left and
\* for a handle of right
C24_Witness ==
    \E t \in DOMAIN tasks :
       /\ tasks[t].pc = "sort"
       /\ \E d \in LeftIds(tasks[t]) : gains[d] > 0
       /\ \E d \in RightIds(tasks[t]) : gains[d] > 0

\* ------------------------------------------------------------------ C25
\* every term of every handle of [first, last) has a degree of at least 1
\* in the degree map deg
DegreesCoverHandles(deg, first, last) ==
    \A p \in first .. (last - 1) : \A term \in fwd[documents[p]] : deg[term] >= 1

\* C25: whenever a gain pass is due or under way, and whenever the swap
\* phase is about to exchange a pair, every term of a handle has a degree of
\* at least 1 in the degree map of the half the handle is in, so that
\* from_deg - 1 and the decrements of swap never go below zero; no entry of
\* a degree map is ever negative
C25_NoDegreeBelowZero ==
    \A t \in DOMAIN tasks :
       /\ \A term \in DOMAIN tasks[t].deg_left : tasks[t].deg_left[term] >= 0
       /\ \A term \in DOMAIN tasks[t].deg_right : tasks[t].deg_right[term] >= 0
       /\ (tasks[t].pc = "gains" \/ (tasks[t].pc = "swap" /\ SwapGoesOn(tasks[t]))) =>
             /\ DegreesCoverHandles(tasks[t].deg_left, tasks[t].first, Mid(tasks[t]))
             /\ DegreesCoverHandles(tasks[t].deg_right, Mid(tasks[t]), tasks[t].last)

\* the swap phase is about to exchange a pair whose handles each hold a term
\* of degree exactly 1 on their side, after an earlier exchange
C25_Witness ==
    \E t \in DOMAIN tasks :
       /\ tasks[t].pc = "swap"
       /\ SwapGoesOn(tasks[t])
       /\ tasks[t].iteration >= 1
       /\ \E term \in fwd[documents[tasks[t].first + tasks[t].lit]] :
             tasks[t].deg_left[term] = 1
       /\ \E term \in fwd[documents[Mid(tasks[t]) + tasks[t].lit]] :
             tasks[t].deg_right[term] = 1

\* ------------------------------------------------------------------ C26
\* for every term below term_count, the number of positions of [first, last)
\* whose handle has the term in its term list
DegreeCounts(first, last) ==
    [term \in 0 .. term_count - 1 |->
        Cardinality({p \in first .. (last - 1) : term \in fwd[documents[p]]})]

\* C26: compute_degrees of a range is a vector of term_count slots whose slot
\* for a term is the number of handles of the range that hold the term: so
\* it is for every range inside the range of an invocation at its entry, the
\* empty ranges included, and so are the two degree maps the invocation
\* starts its first iteration with
C26_DegreesAreCounts ==
    \A t \in DOMAIN tasks :
       /\ tasks[t].pc = "degrees" =>
             \A a, b \in tasks[t].first .. tasks[t].last :
                a <= b =>
                   compute_degrees(fwd, term_count, documents, a, b) = DegreeCounts(a, b)
       /\ (tasks[t].pc = "gains" /\ tasks[t].iteration = 0) =>
             /\ tasks[t].deg_left = DegreeCounts(tasks[t].first, Mid(tasks[t]))
             /\ tasks[t].deg_right = DegreeCounts(Mid(tasks[t]), tasks[t].last)

\* the degree maps of an invocation have just been computed: a term held by
\* two handles or more of the left half, and a term held by none of them
C26_Witness ==
    \E t \in DOMAIN tasks :
       /\ tasks[t].pc = "gains"
       /\ tasks[t].iteration = 0
       /\ tasks[t].sides = {}
       /\ \E term \in DOMAIN tasks[t].deg_left : tasks[t].deg_left[term] >= 2
       /\ \E term \in DOMAIN tasks[t].deg_left : tasks[t].deg_left[term] = 0

\* ------------------------------------------------------------------ C27
\* the step from the invocation f to g keeps the range and its split
SameRange(f, g) == g.first = f.first /\ g.last = f.last /\ Mid(g) = Mid(f)

\* C27: a step of the swap phase of an invocation leaves every entry of the
\* gain scratch, the forward index and the sizes of both halves as they are;
\* of the handle array it changes at most the order, by exchanging the pair
\* at lit, and nothing outside the range of the invocation
C27_SwapFrame ==
    [][\A t \in DOMAIN tasks \cap DOMAIN tasks' :
          (tasks[t].pc = "swap" /\ tasks'[t] # tasks[t]) =>
              /\ gains' = gains
              /\ fwd' = fwd
              /\ term_count' = term_count
              /\ SameRange(tasks[t], tasks'[t])
              /\ documents' # documents =>
                    /\ tasks'[t].pc = "swap"
                    /\ documents' = iter_swap(documents,
                                              tasks[t].first + tasks[t].lit,
                                              Mid(tasks[t]) + tasks[t].lit)
                    /\ RangeIds(documents', tasks[t].first, tasks[t].last)
                          = RangeIds(documents, tasks[t].first, tasks[t].last)]_vars

\* the swap phase has exchanged a pair and changed the degree maps, and the
\* gains are still the ones computed before it, no longer those of the
\* degree maps as they stand
C27_Witness ==
    \E t \in DOMAIN tasks :
       /\ tasks[t].pc = "swap"
       /\ tasks[t].lit >= 1
       /\ tasks[t].deg_left #
             compute_degrees(fwd, term_count, SortedOrder(tasks[t]),
                             tasks[t].first, Mid(tasks[t]))
       /\ ~GainsAreMoveGains(tasks[t])

\* ------------------------------------------------------------------ C28
\* the recursion level of the invocation t: 0 for the top-level call
Level(t) == Len(t)

\* C28: a gain pass of an invocation at recursion level k runs the caching
\* kernel (it advances the generation counter) exactly when k is smaller than
\* the cache_depth given to the top-level call, and the plain kernel
\* otherwise; the cache_depth of an invocation is never negative
C28_CachingByLevel ==
    [][\A t \in DOMAIN tasks \cap DOMAIN tasks' :
          /\ tasks'[t].cache_depth >= 0
          /\ (tasks[t].pc = "gains" /\ tasks'[t] # tasks[t]) =>
                /\ generation' # generation <=> Level(t) < cache_depth
                /\ generation' = generation => gain_cache' = gain_cache]_vars

\* with cache_depth 2 an invocation at level 2 has run a gain pass with the
\* plain kernel, after the caching kernel has run at the levels above it
C28_Witness ==
    \E t \in DOMAIN tasks :
       /\ Level(t) = 2
       /\ cache_depth = 2
       /\ tasks[t].pc = "sort"
       /\ tasks[t].cache_depth = 0
       /\ generation > 0
       /\ tasks[t].last - tasks[t].first >= 2

\* ------------------------------------------------------------------ C29
\* C29: the invocation at recursion level k holds parallel_depth - k of the
\* top-level parallel_depth, or 0 once k has reached it, never less; it runs
\* its two recursive calls as parallel tasks only when k is below the
\* top-level parallel_depth; otherwise it runs them one after the other, the
\* right one called only when the left one has returned
C29_ForkByLevel ==
    \A t \in DOMAIN tasks :
       /\ tasks[t].parallel_depth >= 0
       /\ tasks[t].parallel_depth =
             IF Level(t) < parallel_depth THEN parallel_depth - Level(t) ELSE 0
       /\ tasks[t].pc = "join" => Level(t) < parallel_depth
       /\ tasks[t].pc \in {"left", "right"} => Level(t) >= parallel_depth
       /\ Children(t) = {Append(t, "l"), Append(t, "r")} => tasks[t].pc = "join"
       /\ tasks[t].pc = "left" => Children(t) = {Append(t, "l")}
       /\ tasks[t].pc = "right" => Children(t) = {Append(t, "r")}

\* below a fork, an invocation at level 1 runs its right call after its left
\* call has returned, while its sibling of the fork is still refining
C29_Witness ==
    \E t, u \in DOMAIN tasks :
       /\ Level(t) = 1 /\ Level(u) = 1 /\ t # u
       /\ parallel_depth = 1
       /\ tasks[t].pc = "right"
       /\ tasks[Append(t, "r")].pc = "swap"
       /\ tasks[u].pc = "swap"

\* ------------------------------------------------------------------ C30
\* the tables a run of the precomputed kernel can read: the global of the
\* source as it stands, and the one the constructor of its class builds for
\* the collection with degrees up to the number of documents
TablesOf(u) == {precomputed_moves, precomputed_moves_t(NumDocs, NumDocs + 1, u)}

\* the table entry of every term of every handle of the side [first, last)
\* is the term gain of the plain kernel
EntriesAreTermGains(P, first, last, from_n, to_n, from_lex, to_lex) ==
    /\ <<from_n, to_n>> \in DOMAIN P
    /\ \A d \in RangeIds(documents, first, last) : \A term \in fwd[d] :
          LET plain == term_gain(log2(from_n), log2(to_n), from_lex[term], to_lex[term])
          IN  /\ plain % (2 ^ 23) = 0
              /\ plain \div (2 ^ 23) = P[<<from_n, to_n>>][from_lex[term]][to_lex[term]]

\* the precomputed kernel on the table P ranks the handles of the side
\* [first, last) as the plain kernel does
SameOrder(P, first, last, from_n, to_n, from_lex, to_lex) ==
    LET plain == compute_move_gains(gains, fwd, documents, first, last, from_n, to_n, from_lex, to_lex)
        pre == compute_move_gains_precompute(P, gains, fwd, documents, first, last, from_n, to_n, from_lex, to_lex)
    IN  \A a, b \in RangeIds(documents, first, last) :
           (plain[a] > plain[b]) <=> (pre[a] > pre[b])

\* C30: on the degree maps of an invocation, for either side, the entry
\* P[d1][d2] of the table of the shape (from_n, to_n) that the precomputed
\* kernel adds for a term is the plain kernel's term gain
\* cost_term(d1, d2) - cost_term(d1 - 1, d2 + 1), and the precomputed kernel
\* ranks the handles of the side by gain as the plain kernel does
C30_PrecomputedAsPlain ==
    \A t \in DOMAIN tasks : \A u \in UndefinedUint32 : \A P \in TablesOf(u) :
       LET f == tasks[t] IN
       (Active(t) /\ f.pc \in {"gains", "sort", "swap"} /\ DegreesComputed(f)) =>
          /\ EntriesAreTermGains(P, f.first, Mid(f), LeftSize(f), RightSize(f),
                                 f.deg_left, f.deg_right)
          /\ EntriesAreTermGains(P, Mid(f), f.last, RightSize(f), LeftSize(f),
                                 f.deg_right, f.deg_left)
          /\ SameOrder(P, f.first, Mid(f), LeftSize(f), RightSize(f),
                       f.deg_left, f.deg_right)
          /\ SameOrder(P, Mid(f), f.last, RightSize(f), LeftSize(f),
                       f.deg_right, f.deg_left)

\* ------------------------------------------------------------------ C33
\* C33: whenever a gain pass of an invocation is due (the first one and the
\* one after every swap phase) and after every exchange of the swap loop,
\* deg_left and deg_right are the maps compute_degrees returns for the halves
\* as they now stand
C33_DegreesNeverDrift ==
    \A t \in DOMAIN tasks :
       ((tasks[t].pc = "gains" /\ tasks[t].sides = {}) \/ tasks[t].pc = "swap") =>
          DegreesComputed(tasks[t])

\* the swap loop has just exchanged two handles with different term lists,
\* so both maps have changed
C33_Witness ==
    \E t \in DOMAIN tasks :
       LET f == tasks[t] IN
       /\ f.pc = "swap"
       /\ f.lit > 0
       /\ fwd[documents[f.first + f.lit - 1]] # fwd[documents[Mid(f) + f.lit - 1]]
       /\ f.deg_left # compute_degrees(fwd, term_count,
                                       Unswapped(documents, f.first, Mid(f), f.lit),
                                       f.first, Mid(f))

\* ------------------------------------------------------------------ C34
\* C34: a swap phase starts with both halves in non-increasing order of gain,
\* and when its scan stops at a pair whose gains add up to 0 or less, the
\* gains of every later aligned pair add up to 0 or less too
C34_StopSkipsNoProfit ==
    \A t \in DOMAIN tasks :
       LET f == tasks[t] IN
       f.pc = "swap" =>
          /\ f.lit = 0 =>
                /\ NonIncreasing(documents, f.first, Mid(f))
                /\ NonIncreasing(documents, Mid(f), f.last)
          /\ ~SwapGoesOn(f) =>
                \A j \in f.lit .. (PairCount(f) - 1) : GainSum(documents, f, j) <= 0

\* the scan has stopped at a pair that is followed by a pair of lower gain sum
C34_Witness ==
    \E t \in DOMAIN tasks :
       LET f == tasks[t] IN
       /\ f.pc = "swap"
       /\ ~SwapGoesOn(f)
       /\ f.lit + 1 < PairCount(f)
       /\ GainSum(documents, f, f.lit + 1) < GainSum(documents, f, f.lit)

\* ------------------------------------------------------------------ C35
\* process_partition of the invocation f has returned
PartitionProcessed(f) == f.pc \in {"update", "branch", "join", "left", "right", "done"}

\* C35: no step changes the set of handles of the left half or of the right
\* half of an invocation whose process_partition has returned; a step changes
\* positions only inside the range of an invocation that is executing its own
\* code, and it leaves the set of handles of every range as it is
C35_HalvesSettled ==
    [][ /\ \A t \in DOMAIN tasks \cap DOMAIN tasks' :
             PartitionProcessed(tasks[t]) =>
                /\ RangeIds(documents', tasks[t].first, Mid(tasks[t])) = LeftIds(tasks[t])
                /\ RangeIds(documents', Mid(tasks[t]), tasks[t].last) = RightIds(tasks[t])
        /\ \A p \in DOMAIN documents :
             documents'[p] # documents[p] =>
                \E u \in DOMAIN tasks : Active(u) /\ p \in Positions(tasks[u])
        /\ \A u \in DOMAIN tasks :
             RangeIds(documents', tasks[u].first, tasks[u].last)
                = RangeIds(documents, tasks[u].first, tasks[u].last)
      ]_vars

\* an invocation waits for a recursive call that has exchanged handles
\* inside the half it was called on
C35_Witness ==
    \E t \in DOMAIN tasks :
       /\ tasks[t].pc \in {"join", "left", "right"}
       /\ \E c \in Children(t) : tasks[c].pc = "swap" /\ tasks[c].lit > 0

\* ------------------------------------------------------------------ C36
\* every recursive call is given the depth of its caller less 1, and that is
\* never below 1
DepthDecreases ==
    \A t \in DOMAIN tasks :
       t # Root =>
          /\ tasks[t].depth = tasks[Parent(t)].depth - 1
          /\ tasks[t].depth >= 1

\* the steps one iteration of process_partition can take at most: two for
\* the gain passes, two for the sorts, one for every aligned pair and one to
\* leave the swap loop
IterationSteps(first, last) ==
    Min({split(first, last) - first, last - split(first, last)}) + 5

RECURSIVE WorkOf(_, _, _)
\* the steps a call on [first, last) with depth d can take at most: two for
\* the degrees, the iterations, the progress update, the branch, and for a
\* call that recurses its two recursive calls and their two returns
WorkOf(first, last, d) ==
    2 + Iterations * IterationSteps(first, last) + 2
      + (IF d > 1 /\ last - first > 2
         THEN WorkOf(first, split(first, last), d - 1)
                 + WorkOf(split(first, last), last, d - 1) + 2
         ELSE 0)

\* the steps the recursive calls of f and their returns can take at most
SubtreeWork(f) ==
    IF Recurses(f)
    THEN WorkOf(f.first, Mid(f), f.depth - 1) + WorkOf(Mid(f), f.last, f.depth - 1) + 2
    ELSE 0

\* the steps the iterations of f still ahead of its gain pass can take
IterationsLeft(f) == (Iterations - f.iteration) * IterationSteps(f.first, f.last)

\* the steps the invocation t, from where it stands, can still take at most,
\* with those of the recursive calls it has not made yet
StepsLeft(t) ==
    LET f == tasks[t] IN
    CASE f.pc = "degrees" ->
            2 - Cardinality(f.sides) + IterationsLeft(f) + 2 + SubtreeWork(f)
      [] f.pc = "gains" ->
            IterationsLeft(f) - Cardinality(f.sides) + 2 + SubtreeWork(f)
      [] f.pc = "sort" ->
            IterationsLeft(f) - 2 - Cardinality(f.sides) + 2 + SubtreeWork(f)
      [] f.pc = "swap" -> IterationsLeft(f) - 4 - f.lit + 2 + SubtreeWork(f)
      [] f.pc = "update" -> 2 + SubtreeWork(f)
      [] f.pc = "branch" -> 1 + SubtreeWork(f)
      [] f.pc = "left" -> 2 + WorkOf(Mid(f), f.last, f.depth - 1)
      [] f.pc \in {"join", "right"} -> 1
      [] OTHER -> 0

RECURSIVE StepsLeftOf(_)
\* the sum of StepsLeft over the invocations S
StepsLeftOf(S) ==
    IF S = {} THEN 0
    ELSE LET t == CHOOSE u \in S : TRUE IN StepsLeft(t) + StepsLeftOf(S \ {t})

\* a bound on the steps a run can still take: it is what every step lowers
Variant ==
    CASE phase = "start" -> 2 + WorkOf(0, NumDocs, depth + MaxDepth + NumDocs)
      [] phase = "running" -> 1 + StepsLeftOf(DOMAIN tasks)
      [] OTHER -> 0

\* C36 as stated: a call of recursive_graph_bisection returns, every step
\* lowering a bound on the steps left that is never below 0; the depth of
\* every recursive call is that of its caller less 1 and never below 1; the
\* call has processed at most 2^depth - 1 partitions, and exactly one with a
\* depth of 0 or 1
C36_AtMostFullTree ==
    [][ /\ Variant' < Variant
        /\ Variant' >= 0
        /\ DepthDecreases'
        /\ phase' = "done" =>
              /\ calls' <= 2 ^ depth' - 1
              /\ depth' \in {0, 1} => calls' = 1
      ]_vars

\* C36 amended: the same, with the bound of 2^depth - 1 partitions for a
\* depth of 1 or more
C36_Terminates ==
    [][ /\ Variant' < Variant
        /\ Variant' >= 0
        /\ DepthDecreases'
        /\ phase' = "done" =>
              /\ depth' >= 1 => calls' <= 2 ^ depth' - 1
              /\ depth' \in {0, 1} => calls' = 1
      ]_vars

\* a call with depth 3 has returned after processing the 7 partitions of a
\* full tree
C36_Witness == phase = "done" /\ depth = 3 /\ calls = 2 ^ depth - 1

\* ------------------------------------------------------------------ C37
RECURSIVE RangeSum(_, _, _)
\* the sum of the range sizes of the call on [first, last) with depth d and
\* of the recursive calls it leads to
RangeSum(first, last, d) ==
    (last - first)
      + (IF d > 1 /\ last - first > 2
         THEN RangeSum(first, split(first, last), d - 1)
                 + RangeSum(split(first, last), last, d - 1)
         ELSE 0)

\* the driver has returned to its caller
DriverReturned ==
    \/ phase = "done"
    \/ phase = "running" /\ tasks[Root].pc = "done"

\* C37: under every interleaving of the recursive calls, the progress
\* counter at the return of the driver is the sum of the range sizes of all
\* the calls made, and with a depth of 1 or more it is never above the goal
\* D * depth
C37_ProgressIsRangeSum ==
    /\ DriverReturned => m_count = RangeSum(0, NumDocs, depth)
    /\ depth >= 1 => m_count <= NumDocs * depth

\* a run that forked its recursive calls has returned, with the updates of
\* the two branches in the counter
C37_Witness ==
    /\ DriverReturned
    /\ parallel_depth >= 1
    /\ m_count > NumDocs
    /\ m_count = NumDocs * depth

\* ------------------------------------------------------------------ C38
\* compute_degrees(partition) followed increment by increment: the two tasks
\* of its parallel_invoke, and in each the increments that the par_unseq
\* for_each over the term list of one document runs in any order and at the
\* same time, each a read of the slot and a write of the value read plus 1
RECURSIVE AscendingSeq(_)
AscendingSeq(S) ==
    IF S = {} THEN <<>> ELSE <<Min(S)>> \o AscendingSeq(S \ {Min(S)})

\* a faulty term list that holds every term twice
terms_repeated(index, d) == AscendingSeq(index[d]) \o AscendingSeq(index[d])

\* range.terms(document): the term list of the forward index, strictly
\* ascending
terms(index, d) == AscendingSeq(index[d])

\* the indexes of up to MaxDocs + 1 documents over 2 terms
DegreesInputs ==
    UNION { { [fwd |-> f, term_count |-> 2, depth |-> 1, parallel_depth |-> 0,
               cache_depth |-> 0] : f \in IndexesOf(D, 2) } : D \in 1 .. MaxDocs + 1 }

\* one task of the parallel_invoke, on the handles [first, last): p is the
\* handle its loop stands at, issued the increments of that handle's term
\* list begun so far, loaded the values read by those not yet written back
DegreeTask(first, last) ==
    [first |-> first, last |-> last, p |-> first,
     deg_map |-> [t \in 0 .. term_count - 1 |-> 0], issued |-> {}, loaded |-> <<>>]

DegreesInit ==
    \E in \in DegreesInputs :
        /\ Loaded(in)
        /\ deg_tasks = [side \in Sides |->
                           IF side = "left"
                           THEN DegreeTask(0, split(0, Cardinality(DOMAIN in.fwd)))
                           ELSE DegreeTask(split(0, Cardinality(DOMAIN in.fwd)),
                                           Cardinality(DOMAIN in.fwd))]
        /\ codec = <<>>
        /\ loader = <<>>

\* the term list the task of side is at
TermsAt(side) == terms(fwd, documents[deg_tasks[side].p])

\* deg_map[t] += 1, its first half: the read of the slot
LoadSlot(side, i) ==
    LET k == deg_tasks[side] IN
    /\ k.p < k.last
    /\ i \in (DOMAIN TermsAt(side)) \ k.issued
    /\ deg_tasks' = [deg_tasks EXCEPT ![side] =
           [k EXCEPT !.issued = k.issued \cup {i},
                     !.loaded = [j \in DOMAIN k.loaded \cup {i} |->
                                    IF j = i THEN k.deg_map[TermsAt(side)[i]]
                                    ELSE k.loaded[j]]]]
    /\ UNCHANGED <<fwd, term_count, documents, gains, depth, parallel_depth,
                   cache_depth, phase, tasks, m_count, m_goal, generation,
                   gain_cache, mapping, calls, codec, loader>>

\* a faulty write for two tasks that share one vector: it lands in the maps
\* of both halves
StoreSlotShared(side, i) ==
    LET k == deg_tasks[side] IN
    /\ k.p < k.last
    /\ i \in DOMAIN k.loaded
    /\ deg_tasks' = [s \in Sides |->
           [deg_tasks[s] EXCEPT
               !.deg_map = [@ EXCEPT ![TermsAt(side)[i]] = k.loaded[i] + 1],
               !.loaded = IF s = side
                          THEN [j \in DOMAIN k.loaded \ {i} |-> k.loaded[j]]
                          ELSE @]]
    /\ UNCHANGED <<fwd, term_count, documents, gains, depth, parallel_depth,
                   cache_depth, phase, tasks, m_count, m_goal, generation,
                   gain_cache, mapping, calls, codec, loader>>

\* deg_map[t] += 1, its second half: the write of the value read plus 1
StoreSlot(side, i) ==
    LET k == deg_tasks[side] IN
    /\ k.p < k.last
    /\ i \in DOMAIN k.loaded
    /\ deg_tasks' = [deg_tasks EXCEPT ![side] =
           [k EXCEPT !.deg_map = [k.deg_map EXCEPT ![TermsAt(side)[i]] = k.loaded[i] + 1],
                     !.loaded = [j \in DOMAIN k.loaded \ {i} |-> k.loaded[j]]]]
    /\ UNCHANGED <<fwd, term_count, documents, gains, depth, parallel_depth,
                   cache_depth, phase, tasks, m_count, m_goal, generation,
                   gain_cache, mapping, calls, codec, loader>>

\* the for_each of one document has returned: on to the next document
NextDocument(side) ==
    LET k == deg_tasks[side] IN
    /\ k.p < k.last
    /\ k.issued = DOMAIN TermsAt(side)
    /\ DOMAIN k.loaded = {}
    /\ deg_tasks' = [deg_tasks EXCEPT ![side] = [k EXCEPT !.p = k.p + 1, !.issued = {}]]
    /\ UNCHANGED <<fwd, term_count, documents, gains, depth, parallel_depth,
                   cache_depth, phase, tasks, m_count, m_goal, generation,
                   gain_cache, mapping, calls, codec, loader>>

DegreesNext ==
    \E side \in Sides :
        \/ \E i \in 1 .. term_count : LoadSlot(side, i)
        \/ \E i \in 1 .. term_count : StoreSlot(side, i)
        \/ NextDocument(side)

DegreesSpec == DegreesInit /\ [][DegreesNext]_vars

\* no two increments under way in one task are on the same slot
IncrementsApart ==
    \A side \in Sides :
       \A i, j \in DOMAIN deg_tasks[side].loaded :
          i # j => TermsAt(side)[i] # TermsAt(side)[j]

\* both tasks have been through their handles
DegreesReturned == \A side \in Sides : deg_tasks[side].p = deg_tasks[side].last

\* C38: in the parallel compute_degrees no two increments under way for the
\* term list of one document are on the same slot, a step that writes the
\* map of one half is a step of the task of that half and leaves the map of
\* the other half alone, and whatever the order of the reads and writes the
\* maps returned are those the sequential compute_degrees gives
C38_ParallelAsSequential ==
    [][ /\ IncrementsApart'
        /\ \A side \in Sides :
              deg_tasks'[side].deg_map # deg_tasks[side].deg_map =>
                 /\ DOMAIN deg_tasks[side].loaded # {}
                 /\ \A other \in Sides \ {side} : deg_tasks'[other] = deg_tasks[other]
        /\ DegreesReturned' =>
              \A side \in Sides :
                 deg_tasks'[side].deg_map =
                    compute_degrees(fwd, term_count, documents,
                                    deg_tasks[side].first, deg_tasks[side].last)
      ]_vars

\* both increments of a document of two terms are under way in the right
\* task, between read and write, while one of the left task is
C38_Witness ==
    /\ deg_tasks # <<>>
    /\ Cardinality(DOMAIN deg_tasks["right"].loaded) = 2
    /\ DOMAIN deg_tasks["left"].loaded # {}
    /\ \E t \in 0 .. term_count - 1 : deg_tasks["left"].deg_map[t] > 0

\* ------------------------------------------------------------------ C31
\* the sequences of at most 2 values out of 0, 1 and MaxDocs
ShortSequences == UNION { [1 .. n -> {0, 1, MaxDocs}] : n \in 0 .. 2 }

\* the .docs binary collections of one or two sequences
Collections == UNION { [1 .. n -> ShortSequences] : n \in 1 .. 2 }

\* a faulty from_binary_collection that refuses only an empty first sequence
from_binary_collection_lenient(coll) ==
    LET firstseq == coll[1] IN
    IF Len(firstseq) = 0
    THEN [thrown |-> "invalid_argument", m_size |-> 0]
    ELSE [thrown |-> "", m_size |-> firstseq[1]]

\* forward_index::from_binary_collection on the collection coll: the
\* exception it throws, or none and the forward_index(num_docs) it returns
from_binary_collection(coll) ==
    LET firstseq == coll[1] IN
    IF Len(firstseq) # 1
    THEN [thrown |-> "invalid_argument", m_size |-> 0]
    ELSE [thrown |-> "", m_size |-> firstseq[1]]

\* forward_index::size()
size(index) == index.m_size

LoaderInit ==
    /\ \E coll \in Collections : loader = [coll |-> coll, pc |-> "call"]
    /\ Loaded([fwd |-> <<>>, term_count |-> 0, depth |-> 0, parallel_depth |-> 0,
               cache_depth |-> 0])
    /\ deg_tasks = <<>>
    /\ codec = <<>>

\* the call forward_index::from_binary_collection(basename)
FromBinaryCollection ==
    /\ loader.pc = "call"
    /\ loader' = [coll |-> loader.coll, pc |-> "over",
                  out |-> from_binary_collection(loader.coll)]
    /\ UNCHANGED <<fwd, term_count, documents, gains, depth, parallel_depth,
                   cache_depth, phase, tasks, m_count, m_goal, generation,
                   gain_cache, mapping, calls, deg_tasks, codec>>

LoaderNext == FromBinaryCollection

LoaderSpec == LoaderInit /\ [][LoaderNext]_vars

\* C31: from_binary_collection throws invalid_argument when the first
\* sequence of the collection does not hold exactly one element, and
\* otherwise returns a forward index whose size() is that element
C31_SizeIsFirstElement ==
    loader.pc = "over" =>
       IF Len(loader.coll[1]) # 1
       THEN loader.out.thrown = "invalid_argument"
       ELSE /\ loader.out.thrown = ""
            /\ size(loader.out) = loader.coll[1][1]

\* a collection whose first sequence is the single element MaxDocs, followed
\* by a posting list, has been loaded
C31_Witness ==
    /\ loader.pc = "over"
    /\ Len(loader.coll) = 2
    /\ loader.coll[1] = <<MaxDocs>>
    /\ loader.out.thrown = ""
    /\ size(loader.out) = MaxDocs

\* ------------------------------------------------------------------ C32
\* a uint32_t, held as its top 4 bits hi and its low 28 bits lo, so that no
\* intermediate value leaves the 32-bit signed integers of TLC
Uint32(hi, lo) == [hi |-> hi, lo |-> lo]

\* val < (1U << k), for k up to 28
Below(val, k) == val.hi = 0 /\ val.lo < 2 ^ k

\* static_cast<uint8_t>(val >> (7 * i)), for i in 0 .. 4
extract7bitsmaskless(val, i) ==
    (((val.hi * (2 ^ (28 - 7 * i) % 256)) % 256) + ((val.lo \div 2 ^ (7 * i)) % 256)) % 256

\* a faulty extract7bits that leaves out the mask
extract7bits_unmasked(val, i) == extract7bitsmaskless(val, i)

\* static_cast<uint8_t>((val >> (7 * i)) & ((1U << 7) - 1))
extract7bits(val, i) == extract7bitsmaskless(val, i) % 128

\* b | (1U << 7), stored in a uint8_t
WithHighBit(b) == IF b % 256 >= 128 THEN b % 256 ELSE (b % 256) + 128

\* Varint::encode, the body of its loop: the bytes written for in[k] = val
encode_value(val) ==
    IF Below(val, 7) THEN <<WithHighBit(val.lo)>>
    ELSE IF Below(val, 14)
    THEN <<extract7bits(val, 0), WithHighBit(extract7bitsmaskless(val, 1))>>
    ELSE IF Below(val, 21)
    THEN <<extract7bits(val, 0), extract7bits(val, 1),
           WithHighBit(extract7bitsmaskless(val, 2))>>
    ELSE IF Below(val, 28)
    THEN <<extract7bits(val, 0), extract7bits(val, 1), extract7bits(val, 2),
           WithHighBit(extract7bitsmaskless(val, 3))>>
    ELSE <<extract7bits(val, 0), extract7bits(val, 1), extract7bits(val, 2),
           extract7bits(val, 3), WithHighBit(extract7bitsmaskless(val, 4))>>

RECURSIVE encode_from(_, _)
encode_from(in, k) ==
    IF k > Len(in) THEN <<>> ELSE encode_value(in[k]) \o encode_from(in, k + 1)

\* Varint::encode(in, length, out, nvalue): the bytes written and nvalue
encode(in) ==
    LET bytes == encode_from(in, 1) IN [out |-> bytes, nvalue |-> Len(bytes)]

\* v += ((c & 127) << shift) on the uint32_t v, for the 7 bits g = c & 127:
\* the int (c & 127) << 28 is above INT_MAX for g >= 8 and taken modulo 2^32
\* by the addition to v
AddShifted(v, g, shift) ==
    IF shift >= 28
    THEN Uint32((v.hi + g) % 16, v.lo)
    ELSE Uint32((v.hi + ((v.lo + g * 2 ^ shift) \div 2 ^ 28)) % 16,
                (v.lo + g * 2 ^ shift) % 2 ^ 28)

RECURSIVE decode_from(_, _, _, _, _, _)
\* Varint::decode, its two loops: inbyte is the offset of the byte to read
\* next, v and shift those of the value being read, out the values written.
\* A group that runs past len reads bytes that are not there, and a shift of
\* 28 with bits above the 32nd or a shift of more than 28 is undefined
decode_from(in, len, inbyte, v, shift, out) ==
    IF inbyte >= len /\ shift = 0
    THEN [out |-> out, n |-> Len(out), inbyte |-> inbyte, undefined |-> FALSE]
    ELSE IF inbyte >= Len(in) \/ shift > 28 \/ (shift = 28 /\ in[inbyte + 1] % 128 >= 16)
    THEN [out |-> out, n |-> Len(out), inbyte |-> inbyte, undefined |-> TRUE]
    ELSE LET c == in[inbyte + 1]
             sum == AddShifted(v, c % 128, shift)
         IN  IF c >= 128
             THEN decode_from(in, len, inbyte + 1, Uint32(0, 0), 0, Append(out, sum))
             ELSE decode_from(in, len, inbyte + 1, sum, shift + 7, out)

\* Varint::decode(in, out, len)
decode(in, len) == decode_from(in, len, 0, Uint32(0, 0), 0, <<>>)

\* values at and next to the edges of the five byte lengths, and two of mixed
\* bits
Uint32Samples ==
    { Uint32(0, 0), Uint32(0, 1), Uint32(0, 2 ^ 7 - 1), Uint32(0, 2 ^ 7),
      Uint32(0, 2 ^ 14 - 1), Uint32(0, 2 ^ 14), Uint32(0, 2 ^ 21 - 1),
      Uint32(0, 2 ^ 21), Uint32(0, 2 ^ 28 - 1), Uint32(1, 0),
      Uint32(7, 2 ^ 28 - 1), Uint32(8, 0), Uint32(15, 2 ^ 28 - 1),
      Uint32(0, 2 ^ 21 + 2 ^ 14 + 2 ^ 7 * 5 + 3), Uint32(10, 2 ^ 27 + 2 ^ 20 + 2 ^ 8 + 77) }

CodecInit ==
    /\ \E n \in 0 .. MaxValues : \E in \in [1 .. n -> Uint32Samples] :
          codec = [pc |-> "encode", in |-> in]
    /\ Loaded([fwd |-> <<>>, term_count |-> 0, depth |-> 0, parallel_depth |-> 0,
               cache_depth |-> 0])
    /\ deg_tasks = <<>>
    /\ loader = <<>>

\* the call Varint::encode(in, length, out, nvalue)
Encode ==
    /\ codec.pc = "encode"
    /\ codec' = [pc |-> "decode", in |-> codec.in, encoded |-> encode(codec.in)]
    /\ UNCHANGED <<fwd, term_count, documents, gains, depth, parallel_depth,
                   cache_depth, phase, tasks, m_count, m_goal, generation,
                   gain_cache, mapping, calls, deg_tasks, loader>>

\* the call Varint::decode(in, out, len) on the bytes encode has written
Decode ==
    /\ codec.pc = "decode"
    /\ codec' = [pc |-> "over", in |-> codec.in, encoded |-> codec.encoded,
                 decoded |-> decode(codec.encoded.out, codec.encoded.nvalue)]
    /\ UNCHANGED <<fwd, term_count, documents, gains, depth, parallel_depth,
                   cache_depth, phase, tasks, m_count, m_goal, generation,
                   gain_cache, mapping, calls, deg_tasks, loader>>

CodecNext == Encode \/ Decode

CodecSpec == CodecInit /\ [][CodecNext]_vars

\* the bytes are 1 to 5, the last with the high bit and no other
OneGroup(bytes) ==
    /\ Len(bytes) \in 1 .. 5
    /\ \A i \in 1 .. Len(bytes) : bytes[i] \in 0 .. 255 /\ (bytes[i] >= 128 <=> i = Len(bytes))

\* C32: every value is encoded in 1 to 5 bytes of which only the last has
\* the high bit, and decode on the bytes encode has written gives back the
\* sequence and its length and reads exactly those bytes
C32_DecodeInvertsEncode ==
    /\ codec.pc \in {"decode", "over"} =>
          /\ \A k \in 1 .. Len(codec.in) : OneGroup(encode_value(codec.in[k]))
          /\ codec.encoded.nvalue = Len(codec.encoded.out)
    /\ codec.pc = "over" =>
          /\ codec.decoded.out = codec.in
          /\ codec.decoded.n = Len(codec.in)
          /\ codec.decoded.inbyte = codec.encoded.nvalue
          /\ ~codec.decoded.undefined

\* two values have been through encode and decode, one of them of 5 bytes
\* with its top bit set
C32_Witness ==
    /\ codec.pc = "over"
    /\ Len(codec.in) = 2
    /\ codec.in[1] = Uint32(15, 2 ^ 28 - 1)
    /\ codec.in[2] = Uint32(0, 2 ^ 7)
    /\ codec.encoded.nvalue = 7

====
